---- MODULE Spec2Model ----
(***************************************************************************)
(* State-machine model of the FM Tool processor (fm_tool_core).            *)
(*                                                                         *)
(*   Spec          run_flow and process_row (process_fm_tool.py)           *)
(*   SpecFifo      _fifo_sort and the row iteration of run_flow            *)
(*   SpecWaitReady wait_ready, the ready-flag poll loop (excel_utils.py)   *)
(*   SpecWaitReadyLive  the same with a scheduled thread                   *)
(*   SpecDetect    _detect_payload_type called on its own                  *)
(*   SpecHttp      main of the HTTP wrapper calling run_flow               *)
(*   SpecUpload    sp_ctx, sp_exists, sp_upload as process_row uses them   *)
(*   SpecBid       insert_bid_rows (bid_utils.py)                          *)
(*   SpecAdhoc     update_adhoc_headers (bid_utils.py)                     *)
(*   SpecMacro     run_excel_macro with its worker threads and watchdog    *)
(*   SpecMacroImpl _run_macro_impl, one macro attempt                      *)
(*   SpecLive      run_flow with the CPU wait and the open loop, scheduled *)
(*   SpecReadCell  read_cell                                               *)
(*   SpecCopy      copy_template                                           *)
(*   SpecAdhocFetch  _fetch_adhoc_headers                                  *)
(*                                                                         *)
(* Strings the code takes apart (SCAC_OPP, FM_TOOL) are tuples of          *)
(* one-character strings; strings it only compares or passes on are TLA+   *)
(* strings.  An optional dictionary key is a record [present, val].        *)
(***************************************************************************)
EXTENDS Integers, Sequences, FiniteSets, TLC

VARIABLES
    \* ---- run_flow / process_row
    payload,        \* the payload dictionary handed to run_flow
    pc,             \* position of run_flow
    rows,           \* local `rows` (after _fifo_sort)
    idx,            \* 1-based position of the for-loop in rows
    attempts,       \* local `attempts`
    success,        \* local `success`
    max_retry,      \* local `max_retry`
    enable_upload,  \* local `enable_upload`
    bid_guid,       \* local `bid_guid`
    scac,           \* local `scac`
    payload_type,   \* local `payload_type`
    pending,        \* the exception travelling to the except clause
    events,         \* history: status updates, process_row calls, sleeps
    att,            \* the record of the latest process_row call
    result,         \* what run_flow returned or raised
    \* ---- _fifo_sort
    fifoPc, fifoIn, fifoRows, fifoVisited,
    \* ---- wait_ready
    wrPc,           \* position of wait_ready
    wrNow,          \* time.time() - start, in ticks of POLL_SLEEP
    wrRead,         \* what the latest read of the named range gave
    wrFlag,         \* local `flag` of the latest poll
    wrElapsed,      \* local `elapsed` of the latest poll
    wrErr,          \* the message of the FlowError raised, "" when none
    \* ---- a helper function called on its own
    fnPc,           \* "ready" before the call, "done" after it
    fnIn,           \* the argument
    fnOut,          \* the value returned
    \* ---- the HTTP wrapper (RunFlow/__init__.py)
    httpPc,         \* position of main
    httpReq,        \* the request body
    httpCalls,      \* how many times main has called run_flow
    httpResp,       \* the HttpResponse main returned
    \* ---- run_excel_macro and its worker threads (excel_utils.py)
    macroPc,        \* position of the thread that calls run_excel_macro
    macroCall,      \* which call of run_excel_macro: "first" or "retry"
    attempt,        \* local `attempt` of run_excel_macro
    excList,        \* local `exc`, the list the worker and the watchdog append to
    late,           \* time.time() - start > READY_TO for the current thread
    workers,        \* the worker threads started so far
    macroLog,       \* history: what the calling thread did in this call
    \* ---- the wait loops met on the way to a macro run
    cpu,            \* local `cpu` of wait_for_cpu, the latest reading
    openLate        \* time.time() - t0 > OPEN_TO in _open_excel_with_timeout

flowVars == <<payload, pc, rows, idx, attempts, success, max_retry,
              enable_upload, bid_guid, scac, payload_type, pending, events,
              att, result>>
fifoVars == <<fifoPc, fifoIn, fifoRows, fifoVisited>>
wrVars   == <<wrPc, wrNow, wrRead, wrFlag, wrElapsed, wrErr>>
fnVars   == <<fnPc, fnIn, fnOut>>
httpVars == <<httpPc, httpReq, httpCalls, httpResp>>
macroVars == <<macroPc, macroCall, attempt, excList, late, workers, macroLog>>
loopVars == <<cpu, openLate>>
vars     == <<flowVars, fifoVars, wrVars, fnVars, httpVars, macroVars, loopVars>>
\* What an operation of one part leaves alone.
besidesFlow == <<fifoVars, wrVars, fnVars, httpVars, macroVars, loopVars>>
besidesFifo == <<flowVars, wrVars, fnVars, httpVars, macroVars, loopVars>>
besidesWr   == <<flowVars, fifoVars, fnVars, httpVars, macroVars, loopVars>>
besidesFn   == <<flowVars, fifoVars, wrVars, httpVars, macroVars, loopVars>>
besidesMacro == <<flowVars, fifoVars, wrVars, fnVars, httpVars, loopVars>>

(***************************************************************************)
(* Bounds of the model                                                     *)
(***************************************************************************)
MaxRows == 2          \* longest batch of rows
MaxRetryBound == 2    \* largest In_intMaxRetry tried
MaxSleepTicks == 2    \* longest time one time.sleep(POLL_SLEEP) takes, in ticks

(***************************************************************************)
(* Generic helpers                                                         *)
(***************************************************************************)
SeqsUpTo(S, n) == UNION {[1..k -> S] : k \in 0..n}

Present(v) == [present |-> TRUE, val |-> v]
\* dict.get(key, default) on an optional key
DictGet(opt, default) == IF opt.present THEN opt.val ELSE default

\* ---- character strings --------------------------------------------------
UpperOf(c) ==
    CASE c = "a" -> "A" [] c = "b" -> "B" [] c = "n" -> "N" [] c = "i" -> "I"
      [] c = "t" -> "T" [] c = "p" -> "P" [] c = "v" -> "V"
      [] OTHER -> c
\* str.upper()
Upper(s) == [i \in 1..Len(s) |-> UpperOf(s[i])]

\* s.split(sep, 1)[0]: the part before the first sep, all of s when none
SplitFirst_Whole(s, sep) == s
SplitFirst(s, sep) ==
    IF \E i \in 1..Len(s) : s[i] = sep
    THEN LET p == CHOOSE i \in 1..Len(s) :
                      s[i] = sep /\ \A j \in 1..(i - 1) : s[j] # sep
         IN  SubSeq(s, 1, p - 1)
    ELSE s

\* str.strip(): leading and trailing blanks removed
RECURSIVE LStrip(_)
LStrip(s) == IF s # <<>> /\ Head(s) = " " THEN LStrip(Tail(s)) ELSE s
RECURSIVE RStrip(_)
RStrip(s) ==
    IF s # <<>> /\ s[Len(s)] = " " THEN RStrip(SubSeq(s, 1, Len(s) - 1)) ELSE s
Strip(s) == LStrip(RStrip(s))

(***************************************************************************)
(* _fifo_sort                                                              *)
(***************************************************************************)
TsKeys == <<"QUEUE_TS", "CREATED_UTC", "CREATED_AT">>

\* time.time() at the moment of the sort
NowTs == 2

\* A timestamp value of a row: a number, an ISO string (its instant is t),
\* anything else ("bad": None, an unparsable string), or the key is absent.
TsAbsent == [kind |-> "absent", t |-> 0]
TsNum == [kind |-> "num", t |-> 1]
TsIso == [kind |-> "iso", t |-> 3]
TsBad == [kind |-> "bad", t |-> 0]

\* _ts(v): the sort key of a timestamp value
_ts(v) ==
    CASE v.kind = "num" -> v.t
      [] v.kind = "iso" -> v.t
      [] OTHER -> NowTs

\* `k in r`
HasKey(r, k) == r[k].kind # "absent"

\* The candidate keys that are present in every row, in the order tried.
FifoKey_FirstRowOnly(rs) ==
    SelectSeq(TsKeys, LAMBDA k : rs = <<>> \/ HasKey(rs[1], k))
FifoKey(rs) ==
    SelectSeq(TsKeys, LAMBDA k : \A i \in 1..Len(rs) : HasKey(rs[i], k))

\* sorted(...) is stable: a row goes behind every row whose key is <= its own.
InsertByTs(sorted, r, key) ==
    LET n == Cardinality({i \in 1..Len(sorted) : _ts(sorted[i][key]) <= _ts(r[key])})
    IN  SubSeq(sorted, 1, n) \o <<r>> \o SubSeq(sorted, n + 1, Len(sorted))

RECURSIVE SortedByTs(_, _, _)
SortedByTs(done, todo, key) ==
    IF todo = <<>> THEN done
    ELSE SortedByTs(InsertByTs(done, Head(todo), key), Tail(todo), key)

_fifo_sort(rs) ==
    LET keys == FifoKey(rs)
    IN  IF keys = <<>> THEN rs ELSE SortedByTs(<<>>, rs, Head(keys))

(***************************************************************************)
(* Program constants                                                       *)
(***************************************************************************)
RETRY_SLEEP == 2      \* constants.py: pause before retrying failed work

(***************************************************************************)
(* The payload of run_flow                                                 *)
(***************************************************************************)
NoneVal == [present |-> FALSE, val |-> <<>>]
BidGuid == <<"g", "1">>
OrderAreasValue == "Input <> Order/Area"

\* The rows a batch is made of.  Fields the code only passes on are the same
\* in every row; the rows differ in SCAC_OPP, FM_TOOL and their timestamps.
RowBase ==
    [SCAC_OPP |-> <<>>, FM_TOOL |-> NoneVal,
     QUEUE_TS |-> TsAbsent, CREATED_UTC |-> TsAbsent, CREATED_AT |-> TsAbsent,
     WEEK_CT |-> <<"1", "2">>, PROCESSING_WEEK |-> <<"w">>,
     ORDERAREAS_VALIDATION_VALUE |-> OrderAreasValue,
     NEW_EXCEL_FILENAME |-> <<"x", "/", "d">>]
RowA == [RowBase EXCEPT !.SCAC_OPP = <<"a", "b", "_", "v">>,
                        !.FM_TOOL = Present(<<"P", "I", "T">>),
                        !.QUEUE_TS = TsIso]
RowB == [RowBase EXCEPT !.SCAC_OPP = <<"N", "T">>,
                        !.FM_TOOL = Present(<<" ", "n", "i", "t">>),
                        !.QUEUE_TS = TsNum]
RowC == [RowBase EXCEPT !.SCAC_OPP = <<"p", "_", "t", "_", "v">>]
RowPool == {RowA, RowB, RowC}

Payloads ==
    [rows : SeqsUpTo(RowPool, MaxRows),
     upload : {NoneVal, Present(TRUE), Present(FALSE)},
     maxRetry : {NoneVal} \cup {Present(m) : m \in 0..MaxRetryBound},
     bid : {NoneVal, Present(BidGuid)}]

(***************************************************************************)
(* _detect_payload_type                                                    *)
(***************************************************************************)
\* str(rows[0].get("FM_TOOL", "")).strip().upper() == "NIT"
_detect_payload_type_NoStrip(rs) ==
    IF rs = <<>> THEN "PIT"
    ELSE LET val == Upper(DictGet(rs[1].FM_TOOL, <<>>))
         IN  IF val = <<"N", "I", "T">> THEN "NIT" ELSE "PIT"
_detect_payload_type(rs) ==
    IF rs = <<>> THEN "PIT"
    ELSE LET val == Upper(Strip(DictGet(rs[1].FM_TOOL, <<>>)))
         IN  IF val = <<"N", "I", "T">> THEN "NIT" ELSE "PIT"

(***************************************************************************)
(* process_row                                                             *)
(*                                                                         *)
(* One call is one evaluation of process_row(row, upload, bid, env): env   *)
(* holds the answers of the collaborators (file system, Excel, SQL,        *)
(* SharePoint), and the result records what the call did:                  *)
(*   ret    "True" | "False" | "raise" (an exception left process_row)     *)
(*   err    the text of the exception (logged for "False", raised for      *)
(*          "raise"), "" when none                                         *)
(*   steps  the calls made, in order, each with whether it succeeded       *)
(***************************************************************************)
Step(op, ok) == [op |-> op, ok |-> ok]

EnvOk ==
    [copy |-> "ok", home |-> "ok", cpu |-> "ok", macro |-> "ok", read |-> "ok",
     op |-> "same", oa |-> "other", ctx |-> "ok", exists |-> FALSE, up |-> "ok"]

MacroErrors == {"VBA signaled ERROR", "Timeout running macro"}

\* One scenario for every place where a collaborator's answer changes the
\* path of process_row; answers that are not consulted stay at EnvOk.
EnvChoices ==
    {[EnvOk EXCEPT !.copy = c] : c \in {"ok", "missing", "locked"}}
    \cup {[EnvOk EXCEPT !.home = "fail"], [EnvOk EXCEPT !.cpu = "fail"]}
    \cup {[EnvOk EXCEPT !.macro = e] : e \in MacroErrors}
    \cup {[EnvOk EXCEPT !.read = r] : r \in {"fail1", "fail2"}}
    \cup {[EnvOk EXCEPT !.op = a, !.oa = b] : a \in {"same", "other"}, b \in {"same", "other"}}
    \cup {[EnvOk EXCEPT !.ctx = "fail"], [EnvOk EXCEPT !.exists = TRUE],
          [EnvOk EXCEPT !.up = "fail"]}

\* What read_cell returns for the two validation cells.
OtherCell == <<"?">>
OpCell(row, env) == IF env.op = "same" THEN row.SCAC_OPP ELSE OtherCell
OaCell(row, env) == IF env.oa = "same" THEN row.ORDERAREAS_VALIDATION_VALUE ELSE "OK"

\* line 364: the validation passes unless
\*   op_val != op_code or oa_val == row["ORDERAREAS_VALIDATION_VALUE"]
ValidationOk_And(row, op_val, oa_val) ==
    ~(op_val # row.SCAC_OPP /\ oa_val = row.ORDERAREAS_VALIDATION_VALUE)
ValidationOk(row, op_val, oa_val) ==
    ~(op_val # row.SCAC_OPP \/ oa_val = row.ORDERAREAS_VALIDATION_VALUE)

\* lines 337-343: the arguments of the macro
MacroArgs_GuidFirst(row, bid) ==
    (IF bid.present THEN <<bid.val>> ELSE <<>>)
        \o <<row.SCAC_OPP, row.WEEK_CT, row.PROCESSING_WEEK>>
MacroArgs(row, bid) ==
    <<row.SCAC_OPP, row.WEEK_CT, row.PROCESSING_WEEK>>
        \o (IF bid.present THEN <<bid.val>> ELSE <<>>)

\* lines 317-333: everything before the try block.  A failure here is not
\* caught inside process_row.
PreStage(row, bid, env) ==
    LET s1 == <<Step("copy_template", env.copy = "ok")>>
        s2 == s1 \o (IF bid.present THEN <<Step("_fetch_customer_ids", TRUE)>> ELSE <<>>)
                 \o <<Step("write_home_fields", env.home = "ok")>>
        s3 == s2 \o <<Step("wait_for_cpu", env.cpu = "ok")>>
    IN  IF env.copy = "missing"
          THEN [ok |-> FALSE, steps |-> s1, err |-> "Template not found", copied |-> FALSE]
        ELSE IF env.copy = "locked"
          THEN [ok |-> FALSE, steps |-> s1, err |-> "PermissionError", copied |-> FALSE]
        ELSE IF env.home # "ok"
          THEN [ok |-> FALSE, steps |-> s2, err |-> "write_home_fields failed", copied |-> TRUE]
        ELSE IF env.cpu # "ok"
          THEN [ok |-> FALSE, steps |-> s3, err |-> "cpu_percent failed", copied |-> TRUE]
        ELSE [ok |-> TRUE, steps |-> s3 \o <<Step("kill_orphan_excels", TRUE)>>,
              err |-> "", copied |-> TRUE]

\* lines 368-379: context, existence check and upload
SharePointSteps(row, env) ==
    IF env.ctx # "ok"
      THEN [ok |-> FALSE, steps |-> <<Step("sp_ctx", FALSE)>>,
            err |-> "SharePoint credentials missing"]
    ELSE IF env.exists
      THEN [ok |-> TRUE, err |-> "",
            steps |-> <<Step("sp_ctx", TRUE), Step("sharepoint_file_exists", TRUE)>>]
    ELSE [ok |-> env.up = "ok",
          err |-> IF env.up = "ok" THEN "" ELSE "SharePoint upload failed",
          steps |-> <<Step("sp_ctx", TRUE), Step("sharepoint_file_exists", TRUE),
                      Step("sharepoint_upload", env.up = "ok")>>]

\* line 367: `if upload:`
UploadStage_Always(row, upload, env) == SharePointSteps(row, env)
UploadStage(row, upload, env) ==
    IF ~upload THEN [ok |-> TRUE, steps |-> <<>>, err |-> ""]
    ELSE SharePointSteps(row, env)

\* lines 335-382: the try block.  ok is FALSE when an exception was raised in
\* it; err is that exception's text.
TryStage(row, upload, bid, env) ==
    LET m  == <<Step("run_excel_macro", env.macro = "ok")>>
        r1 == m \o <<Step("read_cell", env.read # "fail1")>>
        r2 == r1 \o <<Step("read_cell", env.read # "fail2")>>
        v  == r2 \o <<Step("validate", ValidationOk(row, OpCell(row, env), OaCell(row, env)))>>
        up == UploadStage(row, upload, env)
    IN  IF env.macro # "ok" THEN [ok |-> FALSE, steps |-> m, err |-> env.macro]
        ELSE IF env.read = "fail1" THEN [ok |-> FALSE, steps |-> r1, err |-> "read_cell failed"]
        ELSE IF env.read = "fail2" THEN [ok |-> FALSE, steps |-> r2, err |-> "read_cell failed"]
        ELSE IF ~ValidationOk(row, OpCell(row, env), OaCell(row, env))
          THEN [ok |-> FALSE, steps |-> v, err |-> "Validation failed"]
        ELSE [ok |-> up.ok, steps |-> v \o up.steps, err |-> up.err]

\* lines 386-388: the finally clause of the try block
FinallySteps == <<Step("unlink", TRUE), Step("kill_orphan_excels", TRUE)>>

\* lines 308-388: the call as a whole
process_row_CatchAll(row, upload, bid, env) ==
    LET pre == PreStage(row, bid, env)
        try == TryStage(row, upload, bid, env)
        base == [ret |-> "False", err |-> pre.err, steps |-> pre.steps,
                 cells |-> FALSE, op_val |-> <<>>, oa_val |-> "",
                 macro_args |-> <<>>, copy_left |-> pre.copied]
    IN  IF ~pre.ok THEN base
        ELSE [base EXCEPT
                !.ret = IF try.ok THEN "True" ELSE "False",
                !.err = try.err,
                !.steps = pre.steps \o try.steps \o FinallySteps,
                !.cells = env.macro = "ok" /\ env.read = "ok",
                !.op_val = IF env.macro = "ok" /\ env.read = "ok"
                           THEN OpCell(row, env) ELSE <<>>,
                !.oa_val = IF env.macro = "ok" /\ env.read = "ok"
                           THEN OaCell(row, env) ELSE "",
                !.macro_args = MacroArgs(row, bid),
                !.copy_left = FALSE]
process_row(row, upload, bid, env) ==
    LET pre == PreStage(row, bid, env)
        try == TryStage(row, upload, bid, env)
        base == [ret |-> "raise", err |-> pre.err, steps |-> pre.steps,
                 cells |-> FALSE, op_val |-> <<>>, oa_val |-> "",
                 macro_args |-> <<>>, copy_left |-> pre.copied]
    IN  IF ~pre.ok THEN base
        ELSE [base EXCEPT
                !.ret = IF try.ok THEN "True" ELSE "False",
                !.err = try.err,
                !.steps = pre.steps \o try.steps \o FinallySteps,
                !.cells = env.macro = "ok" /\ env.read = "ok",
                !.op_val = IF env.macro = "ok" /\ env.read = "ok"
                           THEN OpCell(row, env) ELSE <<>>,
                !.oa_val = IF env.macro = "ok" /\ env.read = "ok"
                           THEN OaCell(row, env) ELSE "",
                !.macro_args = MacroArgs(row, bid),
                !.copy_left = FALSE]

(***************************************************************************)
(* run_flow                                                                *)
(*                                                                         *)
(* pc: "start"   run_flow has been called                                  *)
(*     "call"    top of `while True`, about to call process_row            *)
(*     "sleep"   about to time.sleep(RETRY_SLEEP)                          *)
(*     "ok_exit" the for loop has ended                                    *)
(*     "except"  an exception (text in `pending`) reached the except clause*)
(*     "returned" / "raised"  run_flow is over                             *)
(***************************************************************************)
NoState == [type |-> "", phase |-> ""]
NoEvent ==
    [ev |-> "", proc |-> "", scac |-> <<>>, state |-> NoState, row |-> 0, n |-> 0,
     ret |-> "", secs |-> 0]
\* _exec_proc(proc, (scac, state), log): EXEC proc scac, state.  The names of
\* the procedures are those of the environment variables that hold them.
_exec_proc(proc, sc, state) ==
    [NoEvent EXCEPT !.ev = "status", !.proc = proc, !.scac = sc, !.state = state]
_update_status(sc, state) == _exec_proc("SQL_UPDATE_PROC", sc, state)
\* retained in the code, called from nowhere
_reset_status(sc, state) == _exec_proc("SQL_RESET_PROC", sc, state)
\* _update_status(scac, f"{payload_type}-{phase}", log)
StatusEvent(sc, type, phase) == _update_status(sc, [type |-> type, phase |-> phase])
\* process_row(rows[row], ...) called for the n-th time on that row
AttemptEvent(row, n, ret) == [NoEvent EXCEPT !.ev = "attempt", !.row = row, !.n = n, !.ret = ret]
SleepEvent(secs) == [NoEvent EXCEPT !.ev = "sleep", !.secs = secs]

NoAttempt == [row |-> 0, n |-> 0, call |-> <<>>]

\* The variables of the parts a specification does not run.
FlowIdle ==
    /\ payload = <<>> /\ pc = "idle" /\ rows = <<>> /\ idx = 0 /\ attempts = 0
    /\ success = FALSE /\ max_retry = 0 /\ enable_upload = FALSE
    /\ bid_guid = NoneVal /\ scac = <<>> /\ payload_type = "" /\ pending = ""
    /\ events = <<>> /\ att = NoAttempt /\ result = [kind |-> "none"]

FifoIdle ==
    /\ fifoPc = "idle" /\ fifoIn = <<>> /\ fifoRows = <<>> /\ fifoVisited = <<>>

WrIdle ==
    /\ wrPc = "idle" /\ wrNow = 0 /\ wrRead = <<>> /\ wrFlag = <<>>
    /\ wrElapsed = 0 /\ wrErr = ""

FnIdle == fnPc = "idle" /\ fnIn = <<>> /\ fnOut = ""

NoResponse == [status |-> 0, body |-> [kind |-> "none"], mimetype |-> ""]
HttpIdle ==
    /\ httpPc = "idle" /\ httpReq = [json |-> FALSE, val |-> <<>>]
    /\ httpCalls = 0 /\ httpResp = NoResponse

MacroIdle ==
    /\ macroPc = "idle" /\ macroCall = "" /\ attempt = 0 /\ excList = <<>>
    /\ late = FALSE /\ workers = <<>> /\ macroLog = <<>>

LoopIdle == cpu = 0 /\ openLate = FALSE

Init ==
    /\ payload \in Payloads
    /\ pc = "start"
    /\ rows = <<>> /\ idx = 0 /\ attempts = 0 /\ success = FALSE
    /\ max_retry = 0 /\ enable_upload = FALSE /\ bid_guid = NoneVal
    /\ scac = <<>> /\ payload_type = "" /\ pending = ""
    /\ events = <<>> /\ att = NoAttempt /\ result = [kind |-> "none"]
    /\ FifoIdle /\ WrIdle /\ FnIdle /\ HttpIdle /\ MacroIdle /\ LoopIdle

\* lines 397-430: the locals, then the BEGIN status.  rows[0] raises
\* IndexError on an empty batch, before any status is written.
RunFlowStart ==
    /\ pc = "start"
    /\ rows' = _fifo_sort(payload.rows)
    /\ enable_upload' = DictGet(payload.upload, TRUE)
    /\ max_retry' = DictGet(payload.maxRetry, 1)
    /\ bid_guid' = payload.bid
    /\ IF rows' = <<>>
       THEN /\ pc' = "raised"
            /\ result' = [kind |-> "raised", exc |-> "IndexError"]
            /\ UNCHANGED <<scac, payload_type, events, idx>>
       ELSE /\ scac' = Upper(SplitFirst(rows'[1].SCAC_OPP, "_"))
            /\ payload_type' = _detect_payload_type(rows')
            /\ events' = <<StatusEvent(scac', payload_type', "BEGIN")>>
            /\ idx' = 1
            /\ pc' = "call"
            /\ UNCHANGED result
    /\ UNCHANGED <<payload, attempts, success, pending, att, besidesFlow>>

\* line 439: `if attempts >= max_retry`
RetryExhausted_Gt(n, limit) == n > limit
RetryExhausted(n, limit) == n >= limit

\* line 435: `if process_row(...):` the row is done
RowDone_AnyReturn(ret) == ret \in {"True", "False"}
RowDone(ret) == ret = "True"

\* lines 432-441: one turn of `while True` (with the step of the for loop
\* that follows a successful call)
AttemptAt(at, envs) ==
    /\ pc = at
    /\ \E env \in envs :
         LET call == process_row(rows[idx], enable_upload, bid_guid, env)
             n == attempts + 1
         IN  /\ att' = [row |-> idx, n |-> n, call |-> call]
             /\ events' = Append(events, AttemptEvent(idx, n, call.ret))
             /\ CASE RowDone(call.ret) ->
                       /\ success' = TRUE
                       /\ IF idx < Len(rows)
                          THEN idx' = idx + 1 /\ attempts' = 0 /\ pc' = "call"
                          ELSE idx' = idx /\ attempts' = n /\ pc' = "ok_exit"
                       /\ UNCHANGED pending
                  [] ~RowDone(call.ret) /\ call.ret = "False" ->
                       /\ attempts' = n
                       /\ IF RetryExhausted(n, max_retry)
                          THEN pending' = "Max retries reached" /\ pc' = "except"
                          ELSE pending' = pending /\ pc' = "sleep"
                       /\ UNCHANGED <<success, idx>>
                  [] OTHER ->
                       /\ attempts' = n
                       /\ pending' = call.err
                       /\ pc' = "except"
                       /\ UNCHANGED <<success, idx>>
    /\ UNCHANGED <<payload, rows, max_retry, enable_upload, bid_guid, scac,
                   payload_type, result, besidesFlow>>

Attempt == AttemptAt("call", EnvChoices)

\* line 441: the seconds slept after the n-th failed attempt of a row
RetryDelay_Backoff(n) == RETRY_SLEEP + n
RetryDelay(n) == RETRY_SLEEP

\* line 441: time.sleep(RETRY_SLEEP)
Sleep ==
    /\ pc = "sleep"
    /\ events' = Append(events, SleepEvent(RetryDelay(attempts)))
    /\ pc' = "call"
    /\ UNCHANGED <<payload, rows, idx, attempts, success, max_retry, enable_upload,
                   bid_guid, scac, payload_type, pending, att, result, besidesFlow>>

\* lines 458-465: the finally clause
FinallyEvents_None(sc, type) == <<>>
FinallyEvents_Reset(sc, type) ==
    <<StatusEvent(sc, type, "COMPLETE"), _reset_status(sc, [type |-> type, phase |-> "COMPLETE"])>>
FinallyEvents(sc, type) == <<StatusEvent(sc, type, "COMPLETE")>>

\* lines 443-448: the result of a run whose loop ended
SuccessResult_NotCompleted == [kind |-> "returned", msg |-> "", completed |-> FALSE]
SuccessResult == [kind |-> "returned", msg |-> "", completed |-> TRUE]

\* lines 450-456: the result of a run that reached the except clause
FailureResult_NoMessage(exc, ok) == [kind |-> "returned", msg |-> "", completed |-> ok]
FailureResult_Completed(exc, ok) == [kind |-> "returned", msg |-> exc, completed |-> TRUE]
FailureResult_False(exc, ok) == [kind |-> "returned", msg |-> exc, completed |-> FALSE]
FailureResult(exc, ok) == [kind |-> "returned", msg |-> exc, completed |-> ok]

ReturnSuccess ==
    /\ pc = "ok_exit"
    /\ result' = SuccessResult
    /\ events' = events \o FinallyEvents(scac, payload_type)
    /\ pc' = "returned"
    /\ UNCHANGED <<payload, rows, idx, attempts, success, max_retry, enable_upload,
                   bid_guid, scac, payload_type, pending, att, besidesFlow>>

ReturnFailure ==
    /\ pc = "except"
    /\ result' = FailureResult(pending, success)
    /\ events' = events \o FinallyEvents(scac, payload_type)
    /\ pc' = "returned"
    /\ UNCHANGED <<payload, rows, idx, attempts, success, max_retry, enable_upload,
                   bid_guid, scac, payload_type, pending, att, besidesFlow>>

Next == RunFlowStart \/ Attempt \/ Sleep \/ ReturnSuccess \/ ReturnFailure

Spec == Init /\ [][Next]_vars

(***************************************************************************)
(* Claims about run_flow and process_row (checked under Spec)              *)
(***************************************************************************)
AttemptIdx == {i \in 1..Len(events) : events[i].ev = "attempt"}
StatusIdx(phase) ==
    {i \in 1..Len(events) : events[i].ev = "status" /\ events[i].state.phase = phase}
AttemptsOf(r) == {i \in AttemptIdx : events[i].row = r}
Succeeded(r) == \E i \in AttemptsOf(r) : events[i].ret = "True"
\* The latest process_row call of the run (AttemptIdx is not empty).
LastAttempt == events[CHOOSE i \in AttemptIdx : \A j \in AttemptIdx : j <= i]
\* In_intMaxRetry as run_flow reads it
InMaxRetry == DictGet(payload.maxRetry, 1)
MaxOf(a, b) == IF a >= b THEN a ELSE b
\* The run is over and it failed: its latest process_row call did not succeed.
RunFailed == pc = "returned" /\ AttemptIdx # {} /\ LastAttempt.ret # "True"
\* The run is over because a row returned False on its last allowed attempt.
RowExhausted == RunFailed /\ LastAttempt.ret = "False"

\* ---- C1 -------------------------------------------------------------------
\* C1: on a non-empty batch the run writes exactly one <type>-BEGIN status,
\* before every process_row call, and none while rows are processed; when the
\* run is over it has returned and has written exactly one <type>-COMPLETE
\* status, after every process_row call, of the same type.
C1_BeginComplete ==
    payload.rows # <<>> =>
        /\ pc # "raised"
        /\ pc # "start" =>
              /\ StatusIdx("BEGIN") = {1}
              /\ events[1].state.type = payload_type
              /\ payload_type \in {"PIT", "NIT"}
        /\ pc # "returned" => StatusIdx("COMPLETE") = {}
        /\ pc = "returned" =>
              /\ StatusIdx("COMPLETE") = {Len(events)}
              /\ events[Len(events)].state.type = payload_type
              /\ AttemptIdx # {}
              /\ \A i \in AttemptIdx : 1 < i /\ i < Len(events)

\* A run that ended because an exception left process_row on a retry.
C1_Witness ==
    /\ pc = "returned" /\ AttemptIdx # {}
    /\ LastAttempt.ret = "raise" /\ LastAttempt.n = 2
    /\ StatusIdx("BEGIN") = {1} /\ StatusIdx("COMPLETE") = {Len(events)}

\* ---- C2 -------------------------------------------------------------------
\* C2: a failed run returns (run_flow raises only before any row is
\* processed); the returned message is the non-empty text of the failure
\* ('Max retries reached', or the text of the exception that left
\* process_row), and the last thing the run did was the COMPLETE status.
C2_FailedRunReturns ==
    /\ pc = "raised" => AttemptIdx = {}
    /\ RunFailed =>
          /\ result.kind = "returned"
          /\ result.msg # ""
          /\ result.msg = IF LastAttempt.ret = "raise" THEN att.call.err
                          ELSE "Max retries reached"
          /\ StatusIdx("BEGIN") # {}
          /\ events[Len(events)] = StatusEvent(scac, payload_type, "COMPLETE")

C2_Witness ==
    /\ RowExhausted /\ LastAttempt.n = 2
    /\ result.msg = "Max retries reached"
    /\ StatusIdx("COMPLETE") # {}

\* ---- C3 -------------------------------------------------------------------
\* C3 as claimed: no row gets more process_row calls than In_intMaxRetry.
C3_Original == \A r \in 1..Len(rows) : Cardinality(AttemptsOf(r)) <= InMaxRetry

\* C3 amended: no row gets more process_row calls than max(1, In_intMaxRetry)
\* (the first call is made whatever the limit), and once a row has returned
\* False on that many calls no further call is made and the run ends with
\* 'Max retries reached'.
C3_Amended ==
    LET limit == MaxOf(1, InMaxRetry)
    IN  \A r \in 1..Len(rows) :
          /\ Cardinality(AttemptsOf(r)) <= limit
          /\ \A i \in AttemptsOf(r) : events[i].n = Cardinality({j \in AttemptsOf(r) : j <= i})
          /\ (/\ Cardinality(AttemptsOf(r)) = limit
              /\ \A i \in AttemptsOf(r) : events[i].ret = "False")
             => /\ \A i \in AttemptIdx : events[i].row <= r
                /\ pc \in {"except", "returned"}
                /\ pc = "except" => pending = "Max retries reached"
                /\ pc = "returned" => result.msg = "Max retries reached"

\* Both allowed calls of the second row returned False and the run is over.
C3_Witness ==
    /\ pc = "returned" /\ InMaxRetry = 2
    /\ Cardinality(AttemptsOf(2)) = 2
    /\ \A i \in AttemptsOf(2) : events[i].ret = "False"
    /\ result.msg = "Max retries reached"

\* ---- C4 -------------------------------------------------------------------
\* C4: whenever run_flow returns, the result has Out_boolWorkcompleted = true
\* and an empty message exactly when every row of the batch had a process_row
\* call that returned True.
C4_SuccessIffAllRows ==
    pc = "returned" =>
        ((result.completed /\ result.msg = "")
            <=> \A r \in 1..Len(payload.rows) : Succeeded(r))

\* Two rows, the first of which succeeded on its second call.
C4_Witness ==
    /\ pc = "returned" /\ Len(payload.rows) = 2
    /\ Cardinality(AttemptsOf(1)) = 2
    /\ Succeeded(1) /\ Succeeded(2)
    /\ result.completed /\ result.msg = ""

C6_LastFailureReported ==
    (RunFailed /\ InMaxRetry > 1
        /\ \A i \in AttemptsOf(LastAttempt.row) : events[i].ret # "True")
    => result.msg = att.call.err

\* ---- C8 -------------------------------------------------------------------
\* C8: a process_row call returns True only if both validation cells were
\* read, the SCAC cell equals the row's SCAC_OPP and the order-areas cell
\* differs from the row's ORDERAREAS_VALIDATION_VALUE; whenever the cells were
\* read and do not satisfy this, the call fails with 'Validation failed' and
\* returns False.
C8_Validation ==
    att.row # 0 =>
        LET c == att.call
            row == rows[att.row]
            good == /\ c.op_val = row.SCAC_OPP
                    /\ c.oa_val # row.ORDERAREAS_VALIDATION_VALUE
        IN  /\ c.ret = "True" => c.cells /\ good
            /\ (c.cells /\ ~good) => c.ret = "False" /\ c.err = "Validation failed"

\* The SCAC cell is right and the order-areas cell holds the error value.
C8_Witness ==
    /\ att.row # 0 /\ att.call.cells
    /\ att.call.op_val = rows[att.row].SCAC_OPP
    /\ att.call.oa_val = rows[att.row].ORDERAREAS_VALIDATION_VALUE
    /\ att.call.ret = "False" /\ att.call.err = "Validation failed"

\* ---- C9 -------------------------------------------------------------------
SharePointOps == {"sp_ctx", "sharepoint_file_exists", "sharepoint_upload"}
\* C9: a process_row call touches SharePoint (context, existence check,
\* upload) only when In_boolEnableSharePointUpload is true or absent, and
\* only after the macro run and then the validation of that same call have
\* succeeded; a call whose macro run or validation failed touches it never.
C9_UploadOnlyAfterValidation ==
    att.row # 0 =>
        LET st == att.call.steps
        IN  \A i \in 1..Len(st) :
              st[i].op \in SharePointOps =>
                /\ DictGet(payload.upload, TRUE)
                /\ \E j \in 1..(i - 1) : \E k \in (j + 1)..(i - 1) :
                      /\ st[j] = Step("run_excel_macro", TRUE)
                      /\ st[k] = Step("validate", TRUE)
                /\ \A j \in 1..Len(st) :
                      st[j].op \in {"run_excel_macro", "validate"} => st[j].ok

\* The key is absent from the payload and the file was uploaded.
C9_Witness ==
    /\ att.row # 0 /\ ~payload.upload.present
    /\ \E i \in 1..Len(att.call.steps) : att.call.steps[i] = Step("sharepoint_upload", TRUE)
    /\ att.call.ret = "True"

\* ---- C13 ------------------------------------------------------------------
\* The SCAC of each SCAC_OPP of the row pool: its part before the first
\* underscore, in upper case.
C13_ScacOf(opp) ==
    CASE opp = <<"a", "b", "_", "v">> -> <<"A", "B">>
      [] opp = <<"N", "T">> -> <<"N", "T">>
      [] opp = <<"p", "_", "t", "_", "v">> -> <<"P">>

\* C13: every status update of a run carries the SCAC of the row processed
\* first (the first row after the FIFO sort) and one and the same payload
\* type, so BEGIN and COMPLETE agree and PIT-* and NIT-* never both occur.
C13_SameScacAndType ==
    \A i \in StatusIdx("BEGIN") \cup StatusIdx("COMPLETE") :
        /\ events[i].scac = C13_ScacOf(rows[1].SCAC_OPP)
        /\ events[i].state.type = events[1].state.type
        /\ events[i].state.type \in {"PIT", "NIT"}
        /\ AttemptIdx # {} => \A j \in AttemptIdx : \A k \in AttemptIdx : j <= k => events[j].row <= events[k].row

\* A NIT run whose first processed row was second in the payload.
C13_Witness ==
    /\ pc = "returned" /\ payload.rows = <<RowA, RowB>> /\ rows[1] = RowB
    /\ events[1] = StatusEvent(<<"N", "T">>, "NIT", "BEGIN")
    /\ events[Len(events)] = StatusEvent(<<"N", "T">>, "NIT", "COMPLETE")

\* ---- C14 ------------------------------------------------------------------
\* C14: no stored procedure other than the status-update procedure is ever
\* executed in a run: every EXEC is one of the status updates of run_flow,
\* none is the reset procedure, and process_row executes none.
C14_NoReset ==
    /\ \A i \in 1..Len(events) :
          /\ events[i].proc # "SQL_RESET_PROC"
          /\ events[i].proc # "" => events[i].proc = "SQL_UPDATE_PROC"
          /\ events[i].proc # "" <=> events[i].ev = "status"
    /\ att.row # 0 => \A i \in 1..Len(att.call.steps) :
          att.call.steps[i].op \notin {"_exec_proc", "_update_status", "_reset_status"}

\* A failed run with a BID-Payload: both of its status updates went through
\* the status-update procedure, and customer IDs were fetched (a SELECT).
C14_Witness ==
    /\ RunFailed /\ bid_guid.present
    /\ events[1].proc = "SQL_UPDATE_PROC" /\ events[Len(events)].proc = "SQL_UPDATE_PROC"
    /\ Len(events) > 2
    /\ \E i \in 1..Len(att.call.steps) : att.call.steps[i].op = "_fetch_customer_ids"

\* ---- C15 ------------------------------------------------------------------
\* C15: every sleep of a run lasts 2 seconds, comes directly after an attempt
\* that returned False and was not the row's last allowed one, and is
\* followed by nothing but the next attempt of the same row; two attempts
\* with no sleep between them are a successful attempt and the first attempt
\* of the next row.  So there is exactly one sleep between two consecutive
\* attempts of a row, and none after a success or after the final failure.
C15_SleepBetweenAttempts ==
    \A i \in 1..Len(events) :
        /\ events[i].ev = "sleep" =>
              /\ events[i].secs = 2
              /\ i > 1 /\ events[i - 1].ev = "attempt" /\ events[i - 1].ret = "False"
              /\ events[i - 1].n < MaxOf(1, InMaxRetry)
              /\ i < Len(events) =>
                    /\ events[i + 1].ev = "attempt"
                    /\ events[i + 1].row = events[i - 1].row
                    /\ events[i + 1].n = events[i - 1].n + 1
              /\ i = Len(events) => pc = "call" /\ idx = events[i - 1].row
        /\ (events[i].ev = "attempt" /\ i < Len(events) /\ events[i + 1].ev = "attempt") =>
              /\ events[i].ret = "True"
              /\ events[i + 1].row = events[i].row + 1 /\ events[i + 1].n = 1
        /\ (events[i].ev = "attempt" /\ i < Len(events) /\ events[i + 1].ev = "status") =>
              \/ events[i].ret = "True" /\ events[i].row = Len(rows)
              \/ events[i].ret = "raise"
              \/ events[i].ret = "False" /\ events[i].n >= InMaxRetry

\* Both rows failed once and succeeded on the retry: two sleeps, one per row,
\* and none after the successes.
C15_Witness ==
    /\ pc = "returned" /\ result.completed /\ Len(rows) = 2
    /\ Cardinality({i \in 1..Len(events) : events[i].ev = "sleep"}) = 2
    /\ \A r \in 1..2 : Cardinality(AttemptsOf(r)) = 2

\* ---- C16 ------------------------------------------------------------------
\* Whether the latest process_row call made the named collaborator call.
C16_Did(op) == \E i \in 1..Len(att.call.steps) : att.call.steps[i].op = op

C17_NitIgnoresBid ==
    (att.row # 0 /\ payload_type = "NIT") =>
        /\ C16_Did("run_excel_macro") => Len(att.call.macro_args) = 3
        /\ ~C16_Did("_fetch_customer_ids")

\* ---- C18, C19 -------------------------------------------------------------
\* The notifications of notification_utils, as events of a run.  run_flow
\* and process_row call none of them, so no action appends such an event.
NotifyCalls(kind) == {i \in 1..Len(events) : events[i].ev = kind}

\* C18 as claimed: a run that has returned has sent exactly one outcome
\* email: a success email and no failure email when it succeeded, a failure
\* email and no success email when it failed.
C18_OneNotification ==
    pc = "returned" =>
        /\ Cardinality(NotifyCalls("send_success_email")) = (IF RunFailed THEN 0 ELSE 1)
        /\ Cardinality(NotifyCalls("send_failure_email")) = (IF RunFailed THEN 1 ELSE 0)

\* C19 as claimed (with a notification address available): a successful run
\* has posted the BID webhook once when the payload has a BID-Payload, and
\* not at all when it has none.
C19_WebhookOnSuccess ==
    (pc = "returned" /\ ~RunFailed) =>
        Cardinality(NotifyCalls("send_bid_webhook")) = (IF payload.bid.present THEN 1 ELSE 0)

\* ---- C25 ------------------------------------------------------------------
\* C25: the attempts of a run come row by row: every attempt of a row lies
\* after all attempts of the row before it, of which the last one returned
\* True; nothing is attempted on a row after it has succeeded; and when the
\* attempts of a row ended without a success, no later row is attempted.
C25_OneRowAtATime ==
    \A r \in 1..Len(rows) :
        /\ \A i \in AttemptsOf(r) : \A j \in AttemptsOf(r) :
              (events[i].ret = "True" /\ i # j) => j < i
        /\ (r > 1 /\ AttemptsOf(r) # {}) =>
              /\ Succeeded(r - 1)
              /\ \A i \in AttemptsOf(r - 1) : \A j \in AttemptsOf(r) : i < j
        /\ (pc \in {"except", "returned"} /\ AttemptsOf(r) # {} /\ ~Succeeded(r)) =>
              \A q \in (r + 1)..Len(rows) : AttemptsOf(q) = {}

\* The first of two rows used up its two attempts: the second was never tried.
C25_Witness ==
    /\ pc = "returned" /\ Len(rows) = 2 /\ RowExhausted
    /\ Cardinality(AttemptsOf(1)) = 2 /\ AttemptsOf(2) = {}

\* ---- C30 ------------------------------------------------------------------
C30_Failed(ops) ==
    \E i \in 1..Len(att.call.steps) :
        att.call.steps[i].op \in ops /\ ~att.call.steps[i].ok
C30_NoLaterAttempt ==
    /\ pc \in {"except", "returned"}
    /\ LastAttempt.row = att.row /\ LastAttempt.n = att.n
    /\ LastAttempt.ret = att.call.ret

C31_CopyRemoved == att.row # 0 => ~att.call.copy_left

\* ---- C33 ------------------------------------------------------------------
\* C33: for a payload with the row list and the destination folder run_flow
\* never raises: every run, the one on an empty row list included, ends by
\* returning a result dictionary.
C33_NeverRaises ==
    /\ pc # "raised"
    /\ result.kind \in {"none", "returned"}

(***************************************************************************)
(* SpecFifo: run_flow's use of _fifo_sort.  The batch is drawn in Init;    *)
(* FifoSort is `rows = _fifo_sort(payload["item/In_dtInputData"])`,        *)
(* FifoVisit is one turn of `for row in rows`.                             *)
(***************************************************************************)
\* The timestamp keys of one row: each key absent or one of two values that
\* sort apart (NowTs lies between the two instants).
TsShapes == [QUEUE_TS : {TsAbsent, TsNum, TsIso},
             CREATED_UTC : {TsAbsent, TsNum, TsIso},
             CREATED_AT : {TsAbsent, TsBad, TsIso}]

\* A row of the batch; id is its position in the input list.
FifoRow(i, ts) ==
    [id |-> i, QUEUE_TS |-> ts.QUEUE_TS, CREATED_UTC |-> ts.CREATED_UTC,
     CREATED_AT |-> ts.CREATED_AT]

InitFifo ==
    /\ \E n \in 0..MaxRows : \E ts \in [1..n -> TsShapes] :
          fifoIn = [i \in 1..n |-> FifoRow(i, ts[i])]
    /\ fifoPc = "start" /\ fifoRows = <<>> /\ fifoVisited = <<>>
    /\ FlowIdle /\ WrIdle /\ FnIdle /\ HttpIdle /\ MacroIdle /\ LoopIdle

FifoSort ==
    /\ fifoPc = "start"
    /\ fifoRows' = _fifo_sort(fifoIn)
    /\ fifoPc' = IF fifoIn = <<>> THEN "done" ELSE "loop"
    /\ UNCHANGED <<fifoIn, fifoVisited, besidesFifo>>

FifoVisit ==
    /\ fifoPc = "loop"
    /\ fifoVisited' = Append(fifoVisited, fifoRows[Len(fifoVisited) + 1])
    /\ fifoPc' = IF Len(fifoVisited) + 1 = Len(fifoRows) THEN "done" ELSE "loop"
    /\ UNCHANGED <<fifoIn, fifoRows, besidesFifo>>

NextFifo == FifoSort \/ FifoVisit

SpecFifo == InitFifo /\ [][NextFifo]_vars

\* ---- C7 -------------------------------------------------------------------
\* The positions in TsKeys of the keys that every row of the batch carries.
C7_Common == {j \in 1..Len(TsKeys) : \A i \in 1..Len(fifoIn) : HasKey(fifoIn[i], TsKeys[j])}
C7_Key == TsKeys[CHOOSE j \in C7_Common : \A k \in C7_Common : j <= k]
C7_IsTime(v) == v.kind \in {"num", "iso"}
C7_NotVisited == {i \in 1..Len(fifoIn) : \A p \in 1..Len(fifoVisited) : fifoVisited[p].id # i}

READY_OK == "READY"
READY_ERR == "ERROR"
READY_TO == 600         \* seconds
TicksPerSecond == 4     \* 1 / POLL_SLEEP

\* What wb.names[READY_NAME].refers_to can give: a formula text, as a tuple
\* of tokens (Q is the double quote), or an exception (Unreadable).
Q == "\""
Unreadable == <<"!">>
FlagReads ==
    {Unreadable,
     <<"=", Q, "READY", Q>>, <<"=", "READY">>, <<Q, "READY", Q>>,
     <<"=", Q, "ERROR", Q>>, <<"=", Q, "BUSY", Q>>, <<"=", Q, Q>>,
     <<"=", Q, "READY", "=", Q>>}

\* ref.strip('"')
RECURSIVE LStripQ(_)
LStripQ(s) == IF s # <<>> /\ Head(s) = Q THEN LStripQ(Tail(s)) ELSE s
RECURSIVE RStripQ(_)
RStripQ(s) ==
    IF s # <<>> /\ s[Len(s)] = Q THEN RStripQ(SubSeq(s, 1, Len(s) - 1)) ELSE s

\* lines 130-137: the flag read from the workbook
ReadFlag(read) ==
    IF read = Unreadable THEN <<"<not-set>">>
    ELSE LET ref == IF read # <<>> /\ Head(read) = "=" THEN Tail(read) ELSE read
         IN  RStripQ(LStripQ(ref))

\* lines 144-151: what a poll does with the flag and the elapsed seconds
WaitReadyDecide_TimeoutFirst(flag, elapsed) ==
    IF elapsed >= READY_TO
      THEN [pc |-> "raised", err |-> "Timeout waiting for READY flag"]
    ELSE IF flag = <<READY_OK>> THEN [pc |-> "returned", err |-> ""]
    ELSE IF flag = <<READY_ERR>> THEN [pc |-> "raised", err |-> "VBA signaled ERROR"]
    ELSE [pc |-> "sleep", err |-> ""]
WaitReadyDecide_Gt(flag, elapsed) ==
    IF flag = <<READY_OK>> THEN [pc |-> "returned", err |-> ""]
    ELSE IF flag = <<READY_ERR>> THEN [pc |-> "raised", err |-> "VBA signaled ERROR"]
    ELSE IF elapsed > READY_TO
      THEN [pc |-> "raised", err |-> "Timeout waiting for READY flag"]
    ELSE [pc |-> "sleep", err |-> ""]
WaitReadyDecide(flag, elapsed) ==
    IF flag = <<READY_OK>> THEN [pc |-> "returned", err |-> ""]
    ELSE IF flag = <<READY_ERR>> THEN [pc |-> "raised", err |-> "VBA signaled ERROR"]
    ELSE IF elapsed >= READY_TO
      THEN [pc |-> "raised", err |-> "Timeout waiting for READY flag"]
    ELSE [pc |-> "sleep", err |-> ""]

InitWaitReady ==
    /\ wrPc = "poll" /\ wrNow = 0 /\ wrRead = <<>> /\ wrFlag = <<>>
    /\ wrElapsed = 0 /\ wrErr = ""
    /\ FlowIdle /\ FifoIdle /\ FnIdle /\ HttpIdle /\ MacroIdle /\ LoopIdle

\* lines 129-149: one poll
WaitReadyPoll ==
    /\ wrPc = "poll"
    /\ \E read \in FlagReads :
         LET flag == ReadFlag(read)
             elapsed == wrNow \div TicksPerSecond
             d == WaitReadyDecide(flag, elapsed)
         IN  /\ wrRead' = read
             /\ wrFlag' = flag
             /\ wrElapsed' = elapsed
             /\ wrPc' = d.pc
             /\ wrErr' = d.err
    /\ UNCHANGED <<wrNow, besidesWr>>

\* line 151: time.sleep(POLL_SLEEP) takes one tick or longer
WaitReadySleep ==
    /\ wrPc = "sleep"
    /\ \E d \in 1..MaxSleepTicks : wrNow' = wrNow + d
    /\ wrPc' = "poll"
    /\ UNCHANGED <<wrRead, wrFlag, wrElapsed, wrErr, besidesWr>>

NextWaitReady == WaitReadyPoll \/ WaitReadySleep

SpecWaitReady == InitWaitReady /\ [][NextWaitReady]_vars

\* ---- C10 ------------------------------------------------------------------
\* C10: wait_ready has returned only if the flag it polled last is 'READY';
\* it has raised 'VBA signaled ERROR' exactly when that flag is 'ERROR' and
\* 'Timeout waiting for READY flag' exactly when the flag is neither and
\* READY_TO seconds had elapsed at that poll; it goes on polling exactly when
\* the flag is neither and less than READY_TO seconds had elapsed; a flag that
\* could not be read is taken as '<not-set>', which is neither.
C10_WaitReadyOutcome ==
    wrPc \in {"returned", "raised", "sleep"} =>
        /\ wrPc = "returned" <=> wrFlag = <<"READY">>
        /\ (wrPc = "raised" /\ wrErr = "VBA signaled ERROR") <=> wrFlag = <<"ERROR">>
        /\ (wrPc = "raised" /\ wrErr = "Timeout waiting for READY flag")
              <=> (wrFlag \notin {<<"READY">>, <<"ERROR">>} /\ wrElapsed >= 600)
        /\ wrPc = "sleep"
              <=> (wrFlag \notin {<<"READY">>, <<"ERROR">>} /\ wrElapsed < 600)
        /\ wrPc = "raised" => wrErr \in {"VBA signaled ERROR", "Timeout waiting for READY flag"}
        /\ wrRead = Unreadable => wrFlag = <<"<not-set>">> /\ wrPc \in {"sleep", "raised"}
        /\ wrElapsed * TicksPerSecond <= wrNow /\ wrNow < (wrElapsed + 1) * TicksPerSecond

\* The flag could not be read at the poll that found the time-out.
C10_Witness ==
    /\ wrPc = "raised" /\ wrErr = "Timeout waiting for READY flag"
    /\ wrRead = Unreadable /\ wrElapsed >= 600

(***************************************************************************)
(* wait_ready with a running clock: the thread is scheduled, so a poll or  *)
(* a sleep that can be taken is taken.                                     *)
(***************************************************************************)
SpecWaitReadyLive == SpecWaitReady /\ WF_vars(NextWaitReady)

\* ---- C11 ------------------------------------------------------------------
\* C11: with time advancing at every sleep, wait_ready eventually returns or
\* raises, whatever the reads give; and it never goes on to sleep after a
\* poll at which READY_TO seconds had elapsed, so it is over at the first
\* such poll at the latest.
C11_Terminates ==
    /\ <>(wrPc \in {"returned", "raised"})
    /\ [](wrPc = "sleep" => wrElapsed < 600)
    /\ [][wrPc = "sleep" => wrNow' > wrNow]_vars

\* The flag was set, but to neither value, at every poll up to the first one
\* READY_TO seconds after the start: that poll raises the time-out.
C11_Witness ==
    /\ wrPc = "raised" /\ wrErr = "Timeout waiting for READY flag"
    /\ wrElapsed = 600 /\ wrRead = <<"=", Q, "BUSY", Q>>

(***************************************************************************)
(* _detect_payload_type called on its own, on a list of rows of which only *)
(* FM_TOOL matters.  A JSON null is seen through str() as "None".          *)
(***************************************************************************)
FmToolValues ==
    {NoneVal, Present(<<>>), Present(<<"N", "I", "T">>), Present(<<"n", "i", "t">>),
     Present(<<" ", "N", "i", "t", " ">>), Present(<<"P", "I", "T">>),
     Present(<<"n", " ", "i", "t">>), Present(<<"N", "I">>),
     Present(<<"N", "I", "T", "b">>), Present(<<"N", "o", "n", "e">>)}
DetectRows == {[FM_TOOL |-> v] : v \in FmToolValues}

InitDetect ==
    /\ fnPc = "ready" /\ fnIn \in SeqsUpTo(DetectRows, MaxRows) /\ fnOut = ""
    /\ FlowIdle /\ FifoIdle /\ WrIdle /\ HttpIdle /\ MacroIdle /\ LoopIdle

DetectCall ==
    /\ fnPc = "ready"
    /\ fnOut' = _detect_payload_type(fnIn)
    /\ fnPc' = "done"
    /\ UNCHANGED <<fnIn, besidesFn>>

NextDetect == DetectCall

SpecDetect == InitDetect /\ [][NextDetect]_vars

\* ---- C12 ------------------------------------------------------------------
\* A value that is 'NIT' in some mix of cases between leading and trailing
\* blanks.
C12_NitCases == {<<a, b, c>> : a \in {"n", "N"}, b \in {"i", "I"}, c \in {"t", "T"}}
C12_IsNit(v) ==
    \E i \in 1..Len(v) : \E j \in i..Len(v) :
        /\ SubSeq(v, i, j) \in C12_NitCases
        /\ \A k \in (1..Len(v)) \ (i..j) : v[k] = " "

\* C12: _detect_payload_type returns 'NIT' exactly when the list has a first
\* row whose FM_TOOL is present and, trimmed and compared without regard to
\* case, is 'NIT'; in every other case (another value, no FM_TOOL, an empty
\* list) it returns 'PIT'.  Later rows do not matter.
C12_DetectPayloadType ==
    fnPc = "done" =>
        /\ fnOut \in {"NIT", "PIT"}
        /\ fnOut = "NIT" <=>
              /\ fnIn # <<>>
              /\ fnIn[1].FM_TOOL.present
              /\ C12_IsNit(fnIn[1].FM_TOOL.val)

\* 'NIT' in mixed case between blanks in the first row, 'PIT' in the second.
C12_Witness ==
    /\ fnPc = "done" /\ fnOut = "NIT" /\ Len(fnIn) = 2
    /\ fnIn[1].FM_TOOL = Present(<<" ", "N", "i", "t", " ">>)
    /\ fnIn[2].FM_TOOL = Present(<<"P", "I", "T">>)

(***************************************************************************)
(* The HTTP wrapper: main of RunFlow/__init__.py (fm_tool_processor's main *)
(* is the same code).  The request body is JSON text that parses to a      *)
(* payload, or text that does not parse.                                   *)
(*                                                                         *)
(* httpPc: "start" main has been called, "in_run_flow" inside its call of  *)
(*         run_flow, "done" main returned a response, "raised" the         *)
(*         exception of run_flow left main.                                *)
(***************************************************************************)
HttpRequests ==
    {[json |-> FALSE, val |-> <<>>]} \cup {[json |-> TRUE, val |-> p] : p \in Payloads}

\* line 23: the status code for a result of run_flow
HttpStatus_Ok(res) == 200
HttpStatus(res) == IF res.completed THEN 200 ELSE 500

\* json.dumps(result, ensure_ascii=False): the keys of the result
JsonDumps(res) == [kind |-> "json", msg |-> res.msg, completed |-> res.completed]

\* line 20: func.HttpResponse("Invalid JSON body", status_code=400)
InvalidJsonResponse ==
    [status |-> 400, body |-> [kind |-> "text", msg |-> "Invalid JSON body"], mimetype |-> ""]

InitHttp ==
    /\ httpPc = "start" /\ httpReq \in HttpRequests
    /\ httpCalls = 0 /\ httpResp = NoResponse
    /\ FlowIdle /\ FifoIdle /\ WrIdle /\ FnIdle /\ MacroIdle /\ LoopIdle

\* lines 17-22: req.get_json(), then either the 400 or the call of run_flow
HttpReceive ==
    /\ httpPc = "start"
    /\ IF ~httpReq.json
       THEN /\ httpResp' = InvalidJsonResponse
            /\ httpPc' = "done"
            /\ UNCHANGED <<httpCalls, payload, pc>>
       ELSE /\ httpCalls' = httpCalls + 1
            /\ payload' = httpReq.val
            /\ pc' = "start"
            /\ httpPc' = "in_run_flow"
            /\ UNCHANGED httpResp
    /\ UNCHANGED <<httpReq, rows, idx, attempts, success, max_retry, enable_upload,
                   bid_guid, scac, payload_type, pending, events, att, result,
                   fifoVars, wrVars, fnVars, macroVars, loopVars>>

\* line 22: run_flow runs
HttpRunFlow ==
    /\ httpPc = "in_run_flow"
    /\ Next

\* lines 23-28: the response built from the result
HttpRespond ==
    /\ httpPc = "in_run_flow" /\ pc = "returned"
    /\ httpResp' = [status |-> HttpStatus(result), body |-> JsonDumps(result),
                    mimetype |-> "application/json"]
    /\ httpPc' = "done"
    /\ UNCHANGED <<httpReq, httpCalls, flowVars, fifoVars, wrVars, fnVars, macroVars, loopVars>>

\* line 22: an exception of run_flow is not caught by main
HttpRaise ==
    /\ httpPc = "in_run_flow" /\ pc = "raised"
    /\ httpPc' = "raised"
    /\ UNCHANGED <<httpReq, httpCalls, httpResp, flowVars, fifoVars, wrVars, fnVars, macroVars, loopVars>>

NextHttp == HttpReceive \/ HttpRunFlow \/ HttpRespond \/ HttpRaise

SpecHttp == InitHttp /\ [][NextHttp]_vars

\* ---- C20 ------------------------------------------------------------------
\* C20: for a body that is not JSON main answers 400 and never calls
\* run_flow; for any other body it calls run_flow exactly once, and the
\* response it returns has status 200 when the result's Out_boolWorkcompleted
\* is true and 500 when it is false, with the result as its JSON body.  (When
\* run_flow raises there is no result, and main returns no response.)
C20_HttpWrapper ==
    /\ ~httpReq.json =>
          /\ httpCalls = 0 /\ pc = "idle" /\ httpPc \in {"start", "done"}
          /\ httpPc = "done" =>
                httpResp.status = 400 /\ httpResp.body.msg = "Invalid JSON body"
    /\ httpReq.json =>
          /\ httpCalls = (IF httpPc = "start" THEN 0 ELSE 1)
          /\ httpPc = "done" =>
                /\ pc = "returned" /\ payload = httpReq.val
                /\ httpResp.status = (IF result.completed THEN 200 ELSE 500)
                /\ httpResp.body.kind = "json"
                /\ httpResp.body.msg = result.msg
                /\ httpResp.body.completed = result.completed
                /\ httpResp.mimetype = "application/json"
          /\ httpPc = "raised" => pc = "raised"
    /\ httpPc \notin {"done"} => httpResp = NoResponse

\* A run that used up its retries: 500 with the result as body.
C20_Witness ==
    /\ httpPc = "done" /\ httpResp.status = 500
    /\ httpResp.body.kind = "json" /\ httpResp.body.msg = "Max retries reached"
    /\ ~httpResp.body.completed /\ httpCalls = 1

\* ---- C32 ------------------------------------------------------------------
\* C32: in a failed run Out_boolWorkcompleted is true exactly when some row of
\* the batch was processed successfully before the failure; the result then
\* carries a non-empty Out_strWorkExceptionMessage next to
\* Out_boolWorkcompleted = true, and main answers it with status 200.
C32_PartialSuccess ==
    RunFailed =>
        /\ result.completed <=> \E r \in 1..Len(rows) : Succeeded(r)
        /\ result.completed => result.msg # ""
        /\ (result.completed /\ httpPc = "done") => httpResp.status = 200

\* The first of two rows succeeded, the second failed: answered with 200.
C32_Witness ==
    /\ httpPc = "done" /\ RunFailed /\ Len(rows) = 2
    /\ Succeeded(1) /\ ~Succeeded(2)
    /\ result.completed /\ result.msg # "" /\ httpResp.status = 200

(***************************************************************************)
(* The upload stage of process_row (lines 367-379) with sharepoint_utils.  *)
(* fnIn holds the row's fields and the answers of SharePoint; fnOut the    *)
(* calls made and the exception that left the stage.                       *)
(*                                                                         *)
(* fnPc: "sp_ctx", "exists", "upload" before that call; "done" the stage   *)
(*       ended normally; "raised" an exception left it.                    *)
(***************************************************************************)
NoExc == [type |-> "", msg |-> <<>>, work_completed |-> FALSE]
\* An exception with its text; work_completed is the attribute of FlowError.
Exc(type, text) == [type |-> type, msg |-> <<text>>, work_completed |-> FALSE]
\* FlowError(msg, work_completed=wc)
FlowErrorOf(msg, wc) == [type |-> "FlowError", msg |-> msg, work_completed |-> wc]

\* sp_ctx: the credentials check (the SDK is taken to be installed)
sp_ctx(creds) ==
    IF ~creds THEN FlowErrorOf(<<"SharePoint credentials missing">>, FALSE)
    ELSE NoExc

\* What can happen inside sp_upload: nothing, an error opening the local
\* file, or an exception of upload_file(...).execute_query().
UploadOutcomes ==
    {[stage |-> "ok", exc |-> NoExc],
     [stage |-> "open", exc |-> Exc("FileNotFoundError", "no file")]}
    \cup {[stage |-> "upload", exc |-> Exc(t, "403")] :
            t \in {"ClientRequestException", "requests.HTTPError",
                   "ConnectionError", "ValueError"}}

\* sp_upload: the exception that leaves it (NoExc when none).  `requests` is
\* whether the requests module could be imported.
sp_upload_AnyException(out, requests) ==
    IF out.stage = "upload"
      THEN FlowErrorOf(<<"SharePoint upload failed: ">> \o out.exc.msg, FALSE)
    ELSE out.exc
sp_upload(out, requests) ==
    IF out.stage = "upload" /\ out.exc.type = "ClientRequestException"
      THEN FlowErrorOf(<<"SharePoint upload failed: ">> \o out.exc.msg, FALSE)
    ELSE IF out.stage = "upload" /\ requests /\ out.exc.type = "requests.HTTPError"
      THEN FlowErrorOf(<<"SharePoint upload failed: ">> \o out.exc.msg, FALSE)
    ELSE out.exc

\* CLIENT_DEST_FOLDER_PATH.lstrip("/")
RECURSIVE LStripSlash(_)
LStripSlash(s) == IF s # <<>> /\ Head(s) = "/" THEN LStripSlash(Tail(s)) ELSE s

\* lines 369-372: (Path(site_path) / dest.lstrip("/")).as_posix()
SpFolder(site_path, dest) ==
    IF site_path = <<>> THEN LStripSlash(dest)
    ELSE site_path \o <<"/">> \o LStripSlash(dest)

\* line 373: f"{folder}/{row['NEW_EXCEL_FILENAME']}"
RelFile(folder, fname) == folder \o <<"/">> \o fname

UploadInputs ==
    [fname : {<<"d">>, <<"x", "/", "d">>, <<"x", "/", "y", "/", "d">>},
     site_path : {<<>>, <<"/", "s">>},
     dest : {<<"f">>, <<"/", "f">>},
     creds : BOOLEAN, exists : BOOLEAN, requests : BOOLEAN,
     up : UploadOutcomes]

SpCall(op, folder, file) == [op |-> op, folder |-> folder, file |-> file]

InitUpload ==
    /\ fnPc = "sp_ctx"
    /\ fnIn \in {i \in UploadInputs : i.up.exc.type = "requests.HTTPError" => i.requests}
    /\ fnOut = [calls |-> <<>>, exc |-> NoExc]
    /\ FlowIdle /\ FifoIdle /\ WrIdle /\ HttpIdle /\ MacroIdle /\ LoopIdle

\* line 368: ctx = sp_ctx(row["CLIENT_DEST_SITE"])
UploadCtx ==
    /\ fnPc = "sp_ctx"
    /\ fnOut' = [calls |-> Append(fnOut.calls, SpCall("sp_ctx", <<>>, <<>>)),
                 exc |-> sp_ctx(fnIn.creds)]
    /\ fnPc' = IF fnOut'.exc = NoExc THEN "exists" ELSE "raised"
    /\ UNCHANGED <<fnIn, besidesFn>>

\* lines 369-376: sharepoint_file_exists(ctx, rel_file)
UploadExists ==
    /\ fnPc = "exists"
    /\ LET folder == SpFolder(fnIn.site_path, fnIn.dest)
       IN  fnOut' = [fnOut EXCEPT !.calls =
                        Append(@, SpCall("sharepoint_file_exists", <<>>,
                                         RelFile(folder, fnIn.fname)))]
    /\ fnPc' = IF fnIn.exists THEN "done" ELSE "upload"
    /\ UNCHANGED <<fnIn, besidesFn>>

\* line 378: sharepoint_upload(ctx, folder, row["NEW_EXCEL_FILENAME"], dst_path)
UploadCall ==
    /\ fnPc = "upload"
    /\ LET folder == SpFolder(fnIn.site_path, fnIn.dest)
       IN  fnOut' = [calls |-> Append(fnOut.calls,
                                      SpCall("sharepoint_upload", folder, fnIn.fname)),
                     exc |-> sp_upload(fnIn.up, fnIn.requests)]
    /\ fnPc' = IF fnOut'.exc = NoExc THEN "done" ELSE "raised"
    /\ UNCHANGED <<fnIn, besidesFn>>

NextUpload == UploadCtx \/ UploadExists \/ UploadCall

SpecUpload == InitUpload /\ [][NextUpload]_vars

\* ---- C21 ------------------------------------------------------------------
\* Whether sp_upload has been called.
C21_Uploaded ==
    \E i \in 1..Len(fnOut.calls) : fnOut.calls[i].op = "sharepoint_upload"

\* C21: when upload_file(...).execute_query() raises ClientRequestException
\* or requests.HTTPError, sp_upload raises a FlowError whose message starts
\* with 'SharePoint upload failed', carries the text of the cause, and whose
\* work_completed is false; an exception of any other type, and an error
\* opening the local file, leave sp_upload unchanged; with no exception none
\* is raised.
C21_UploadErrors ==
    C21_Uploaded =>
        LET out == fnIn.up
            translated == out.stage = "upload" /\ out.exc.type \in
                              {"ClientRequestException", "requests.HTTPError"}
        IN  /\ translated =>
                  /\ fnPc = "raised" /\ fnOut.exc.type = "FlowError"
                  /\ Head(fnOut.exc.msg) = "SharePoint upload failed: "
                  /\ Tail(fnOut.exc.msg) = out.exc.msg
                  /\ ~fnOut.exc.work_completed
            /\ (~translated /\ out.stage # "ok") => fnPc = "raised" /\ fnOut.exc = out.exc
            /\ out.stage = "ok" => fnPc = "done" /\ fnOut.exc = NoExc

\* An HTTP error of the upload came out as FlowError.
C21_Witness ==
    /\ fnPc = "raised" /\ C21_Uploaded /\ fnIn.up.exc.type = "requests.HTTPError"
    /\ fnOut.exc = FlowErrorOf(<<"SharePoint upload failed: ", "403">>, FALSE)

\* ---- C22 ------------------------------------------------------------------
\* C22 as claimed: the existence check and the upload use only the final
\* path component of NEW_EXCEL_FILENAME (in every input here that is "d").
C22_FinalComponentOnly ==
    \A i \in 1..Len(fnOut.calls) :
        /\ fnOut.calls[i].op = "sharepoint_file_exists" =>
              fnOut.calls[i].file = SpFolder(fnIn.site_path, fnIn.dest) \o <<"/", "d">>
        /\ fnOut.calls[i].op = "sharepoint_upload" => fnOut.calls[i].file = <<"d">>

(***************************************************************************)
(* bid_utils.insert_bid_rows called on its own.                            *)
(*                                                                         *)
(* A value of a row is a record [kind, s]: kind "str" or "int" with the    *)
(* text of the value, "none" for None, "absent" when the row lacks the     *)
(* key.  fnIn holds the rows and the answers of Excel, fnOut the calls     *)
(* made, in order, and the exception that left the function.               *)
(***************************************************************************)
_COLUMNS ==
    <<"LANE_ID", "ORIG_CITY", "ORIG_ST", "ORIG_POSTAL_CD", "DEST_CITY", "DEST_ST",
      "DEST_POSTAL_CD", "BID_VOLUME", "LH_RATE", "RFP_MILES", "FREIGHT_TYPE",
      "TEMP_CAT", "BTF_FSC_PER_MILE", "ADHOC_INFO1", "ADHOC_INFO2", "ADHOC_INFO3",
      "ADHOC_INFO4", "ADHOC_INFO5", "ADHOC_INFO6", "ADHOC_INFO7", "ADHOC_INFO8",
      "ADHOC_INFO9", "ADHOC_INFO10", "FM_MILES", "FM_TOLLS">>
_REQUIRED == {"LANE_ID", "ORIG_POSTAL_CD", "DEST_POSTAL_CD"}
ColumnSet == {_COLUMNS[i] : i \in 1..Len(_COLUMNS)}

VAbsent == [kind |-> "absent", s |-> ""]
VNone == [kind |-> "none", s |-> ""]
VStr(s) == [kind |-> "str", s |-> s]
VInt(s) == [kind |-> "int", s |-> s]

\* A row with the given values of four of its columns and no other key.
BidRec(lane, orig, dest, tolls) ==
    [c \in ColumnSet |->
        CASE c = "LANE_ID" -> lane
          [] c = "ORIG_POSTAL_CD" -> orig
          [] c = "DEST_POSTAL_CD" -> dest
          [] c = "FM_TOLLS" -> tolls
          [] OTHER -> VAbsent]
BidRecs ==
    {BidRec(VStr("1"), VStr("11111"), VStr("22222"), VAbsent),
     BidRec(VInt("2"), VStr("11111"), VStr("22222"), VInt("5")),
     BidRec(VNone, VStr("11111"), VStr("22222"), VInt("5")),
     BidRec(VStr("4"), VAbsent, VStr("22222"), VAbsent),
     BidRec(VStr("5"), VStr("11111"), VStr("22222"), VInt("0")),
     BidRec(VAbsent, VAbsent, VAbsent, VAbsent)}

\* bool(v) is False: None (also what rec.get gives for a missing key), 0, ""
Falsy(v) ==
    \/ v.kind \in {"absent", "none"}
    \/ v.kind = "int" /\ v.s = "0"
    \/ v.kind = "str" /\ v.s = ""

\* line 134: _REQUIRED.issubset(k for k in rec if rec[k] is not None)
HasRequired(rec) == \A k \in _REQUIRED : rec[k].kind \notin {"absent", "none"}

\* line 135: [rec.get(col) or "" for col in _COLUMNS]
BidLine(rec) ==
    [i \in 1..Len(_COLUMNS) |->
        IF Falsy(rec[_COLUMNS[i]]) THEN VStr("") ELSE rec[_COLUMNS[i]]]

\* lines 132-135: data
RECURSIVE BidData(_)
BidData(rs) ==
    IF rs = <<>> THEN <<>>
    ELSE (IF HasRequired(Head(rs)) THEN <<BidLine(Head(rs))>> ELSE <<>>) \o BidData(Tail(rs))

XlCall(op) == [op |-> op, start_row |-> 0, n_rows |-> 0, n_cols |-> 0, data |-> <<>>]
\* line 166: ws.range((start_row, 1)).resize(n_rows, n_cols).value = data
XlWrite(start_row, data) ==
    [op |-> "write", start_row |-> start_row, n_rows |-> Len(data),
     n_cols |-> Len(_COLUMNS), data |-> data]

\* lines 174-187: the finally clause
BidFinally(opened) ==
    (IF opened THEN <<XlCall("close")>> ELSE <<>>)
        \o <<XlCall("kill"), XlCall("CoUninitialize")>>

\* insert_bid_rows: the calls it makes and the exception that leaves it
insert_bid_rows(in) ==
    LET data == BidData(in.rows)
        pre == (IF in.adhoc THEN <<XlCall("update_adhoc_headers")>> ELSE <<>>)
                  \o <<XlCall("CoInitialize"), XlCall("App")>>
    IN  IF in.rows = <<>> \/ data = <<>> \/ ~in.xw THEN [calls |-> <<>>, exc |-> NoExc]
        ELSE IF in.open # "ok"
          THEN [calls |-> pre \o <<XlCall("open")>> \o BidFinally(FALSE),
                exc |-> Exc("com_error", "open failed")]
        ELSE IF ~in.sheet
          THEN [calls |-> pre \o <<XlCall("open")>> \o BidFinally(TRUE), exc |-> NoExc]
        ELSE [calls |-> pre \o <<XlCall("open"), XlWrite(in.last_row + 1, data),
                                 XlCall("save")>> \o BidFinally(TRUE),
              exc |-> NoExc]

BidInputs ==
    [rows : SeqsUpTo(BidRecs, MaxRows), xw : BOOLEAN, adhoc : BOOLEAN,
     open : {"ok", "fail"}, sheet : BOOLEAN, last_row : {1, 4}]

InitBid ==
    /\ fnPc = "ready" /\ fnIn \in BidInputs /\ fnOut = [calls |-> <<>>, exc |-> NoExc]
    /\ FlowIdle /\ FifoIdle /\ WrIdle /\ HttpIdle /\ MacroIdle /\ LoopIdle

BidInsert ==
    /\ fnPc = "ready"
    /\ fnOut' = insert_bid_rows(fnIn)
    /\ fnPc' = "done"
    /\ UNCHANGED <<fnIn, besidesFn>>

NextBid == BidInsert

SpecBid == InitBid /\ [][NextBid]_vars

\* ---- C23 ------------------------------------------------------------------
C23_Calls(op) == {i \in 1..Len(fnOut.calls) : fnOut.calls[i].op = op}
\* The rows that have the three required fields, in their order.
C23_Valid == SelectSeq(fnIn.rows, LAMBDA r : \A k \in _REQUIRED : r[k].kind \in {"str", "int"})
\* A row as 25 values: the value of each column, "" for a field it lacks.
C23_Line(r) ==
    [i \in 1..25 |-> IF r[_COLUMNS[i]].kind \in {"str", "int"} THEN r[_COLUMNS[i]] ELSE VStr("")]

\* C23 as claimed: Excel is never started when there is no row or no row with
\* the three required fields; when rows are written, it is in one write, just
\* below the last used row, of all and only the rows with the required fields,
\* in order, each as the 25 values of its columns with "" for missing fields.
C23_InsertBidRows ==
    fnPc = "done" =>
        /\ C23_Valid = <<>> => fnOut.calls = <<>>
        /\ \A i \in C23_Calls("write") :
              /\ C23_Calls("write") = {i}
              /\ fnOut.calls[i].start_row = fnIn.last_row + 1
              /\ fnOut.calls[i].n_cols = 25
              /\ fnOut.calls[i].n_rows = Len(C23_Valid)
              /\ fnOut.calls[i].data = [j \in 1..Len(C23_Valid) |-> C23_Line(C23_Valid[j])]

(***************************************************************************)
(* bid_utils.update_adhoc_headers called on its own.  The sheet is its     *)
(* rows 1, 6 and 7, two columns wide; labels and header keys are tuples of *)
(* characters.                                                             *)
(***************************************************************************)
\* lines 84-85: str(val).strip().upper().replace("_", "").replace(" ", "")
_norm(val) == SelectSeq(Upper(Strip(val)), LAMBDA c : c \notin {"_", " "})

HeaderLabels == {<<"a", " ", "1">>, <<"A", "_", "2">>, <<"b">>}
HeaderKeys == {<<"a", "1">>, <<" ", "a", "_", "2">>, <<"t", "t">>}
\* The value supplied for a header key.
HeaderValue(k) == <<"X">> \o k

AdhocInputs ==
    [keys : SUBSET HeaderKeys,
     row1 : [1..1 -> HeaderLabels] \cup [1..2 -> HeaderLabels],
     row6 : [1..2 -> HeaderLabels],
     xw : BOOLEAN, sheet : BOOLEAN]

\* lines 73-93: the header range A1 expanded to the right, with the labels
\* that match a key replaced.  A range of one cell reads as a scalar and is
\* left alone.
NewHeaderRow(row, keys) ==
    IF Len(row) < 2 THEN row
    ELSE [i \in 1..Len(row) |->
            IF \E k \in keys : _norm(k) = _norm(row[i])
            THEN HeaderValue(CHOOSE k \in keys : _norm(k) = _norm(row[i]))
            ELSE row[i]]

\* update_adhoc_headers: the sheet it leaves and the calls it made
update_adhoc_headers(in) ==
    LET same == [row1 |-> in.row1, row6 |-> in.row6, row7 |-> <<<<>>, <<>>>>]
    IN  IF in.keys = {} \/ ~in.xw THEN [sheet |-> same, calls |-> <<>>]
        ELSE IF ~in.sheet
          THEN [sheet |-> same,
                calls |-> <<"CoInitialize", "App", "open", "close", "kill", "CoUninitialize">>]
        ELSE [sheet |-> [same EXCEPT !.row1 = NewHeaderRow(in.row1, in.keys)],
              calls |-> <<"CoInitialize", "App", "open">>
                        \o (IF Len(in.row1) < 2 THEN <<>> ELSE <<"write">>)
                        \o <<"save", "close", "kill", "CoUninitialize">>]

InitAdhoc ==
    /\ fnPc = "ready" /\ fnIn \in AdhocInputs
    /\ fnOut = [sheet |-> [row1 |-> fnIn.row1, row6 |-> fnIn.row6, row7 |-> <<<<>>, <<>>>>],
                calls |-> <<>>]
    /\ FlowIdle /\ FifoIdle /\ WrIdle /\ HttpIdle /\ MacroIdle /\ LoopIdle

AdhocUpdate ==
    /\ fnPc = "ready"
    /\ fnOut' = update_adhoc_headers(fnIn)
    /\ fnPc' = "done"
    /\ UNCHANGED <<fnIn, besidesFn>>

NextAdhoc == AdhocUpdate

SpecAdhoc == InitAdhoc /\ [][NextAdhoc]_vars

\* ---- C24 ------------------------------------------------------------------
\* A key and a label that are equal when case, blanks and underscores are
\* ignored.
C24_Matches(k, label) ==
    LET bare(x) == SelectSeq(x, LAMBDA c : c \notin {"_", " "})
        fold(c) == IF c = "A" THEN "a" ELSE c
    IN  [i \in 1..Len(bare(k)) |-> fold(bare(k)[i])]
          = [i \in 1..Len(bare(label)) |-> fold(bare(label)[i])]

\* C24 as claimed: once update_adhoc_headers has run on the workbook, row 7
\* holds, in each column whose row-6 label matches a supplied key, the value
\* of that key; every other cell of rows 1, 6 and 7 is as before.
C24_Row7Written ==
    (fnPc = "done" /\ fnIn.xw /\ fnIn.sheet) =>
        /\ \A c \in 1..2 :
              /\ \A k \in fnIn.keys :
                    C24_Matches(k, fnIn.row6[c]) => fnOut.sheet.row7[c] = HeaderValue(k)
              /\ (\A k \in fnIn.keys : ~C24_Matches(k, fnIn.row6[c]))
                    => fnOut.sheet.row7[c] = <<>>
        /\ fnOut.sheet.row1 = fnIn.row1
        /\ fnOut.sheet.row6 = fnIn.row6

(***************************************************************************)
(* SpecMacro: run_excel_macro (excel_utils.py), the worker thread it       *)
(* starts for every attempt and the watchdog loop of the calling thread,   *)
(* called by process_row under the retry loop of run_flow.  A worker       *)
(* thread and the calling thread interleave step by step.                  *)
(***************************************************************************)
RPC_E_CALL_FAILED == -2147023170
RPC_E_SERVER_UNAVAILABLE == -2147023174
backoff == 5
retries == 3

\* An exception object: FlowError has no hresult attribute, a COM error has.
NoErr == [type |-> "", msg |-> "", has_hresult |-> FALSE, hresult |-> 0]
FlowErr(msg) == [NoErr EXCEPT !.type = "FlowError", !.msg = msg]
ComError(hr) ==
    [NoErr EXCEPT !.type = "com_error", !.has_hresult = TRUE, !.hresult = hr]

\* What a COM call on the workbook can raise.
StepErrors ==
    {ComError(RPC_E_CALL_FAILED), ComError(RPC_E_SERVER_UNAVAILABLE),
     ComError(RPC_E_CALL_FAILED + 1)}
\* lines 156-179: _open_excel_with_timeout fails (the app is killed on the
\* open timeout), or creating the Excel app raises
OpenErrors ==
    {FlowErr("Excel failed to open workbook"), ComError(RPC_E_SERVER_UNAVAILABLE)}

\* line 254, 256: hr = getattr(err, "hresult", None); the retry test
ShouldRetry_AnyError(err, n) == n < retries
ShouldRetry(err, n) ==
    /\ err.has_hresult
    /\ err.hresult \in {RPC_E_CALL_FAILED, RPC_E_SERVER_UNAVAILABLE}
    /\ n < retries

\* ---- _run_macro_impl ----------------------------------------------------
\* What the attempt meets: each call either works (NoErr, TRUE) or raises;
\* `wait` is the way wait_ready ends.
ImplEnvs ==
    [open  : {NoErr} \cup OpenErrors,
     macro : {NoErr} \cup StepErrors,
     wait  : {"READY", "ERROR", "timeout"},
     calc  : {NoErr} \cup StepErrors,
     save  : {NoErr} \cup StepErrors,
     close : BOOLEAN,
     kill  : BOOLEAN]

\* lines 144-149: what wait_ready raises
WaitError(how) ==
    CASE how = "ERROR"   -> FlowErr("VBA signaled ERROR")
      [] how = "timeout" -> FlowErr("Timeout waiting for READY flag")
      [] OTHER           -> NoErr

\* lines 206-212: for op in (wb.close, app.kill): try op() except: pass
ImplFinally(env) ==
    <<IF env.close THEN "close" ELSE "close_failed",
      IF env.kill THEN "kill" ELSE "kill_failed">>

\* lines 196-205: the try block; the first call that raises ends it
ImplTry_SaveAnyway(env) ==
    IF env.macro # NoErr
    THEN [err |-> env.macro, ops |-> <<"macro_failed">>]
    ELSE [err |-> WaitError(env.wait),
          ops |-> <<"macro", env.wait, "CalculateFull", "save">>]
ImplTry(env) ==
    IF env.macro # NoErr
    THEN [err |-> env.macro, ops |-> <<"macro_failed">>]
    ELSE IF env.wait # "READY"
    THEN [err |-> WaitError(env.wait), ops |-> <<"macro", env.wait>>]
    ELSE IF env.calc # NoErr
    THEN [err |-> env.calc, ops |-> <<"macro", "READY", "calc_failed">>]
    ELSE IF env.save # NoErr
    THEN [err |-> env.save,
          ops |-> <<"macro", "READY", "CalculateFull", "save_failed">>]
    ELSE [err |-> NoErr, ops |-> <<"macro", "READY", "CalculateFull", "save">>]

\* lines 193-212: the exception that leaves the attempt (NoErr when none)
\* and the calls it made on the workbook and on Excel, in order
_run_macro_impl(env) ==
    IF env.open # NoErr
    THEN [err |-> env.open, ops |-> <<"open_failed">>]
    ELSE LET body == ImplTry(env)
         IN  [err |-> body.err,
              ops |-> <<"open">> \o body.ops \o ImplFinally(env)]

\* The exceptions an attempt can end with; wait_ready can time out only
\* READY_TO seconds after it was entered, later than the thread was started.
ImplErrsLate == {_run_macro_impl(env).err : env \in ImplEnvs}
ImplErrsEarly ==
    {_run_macro_impl(env).err : env \in {e \in ImplEnvs : e.wait # "timeout"}}

\* lines 237-238: a thread just started, inside _run_macro_impl
NewWorker(c, n) == [call |-> c, n |-> n, pc |-> "impl", err |-> NoErr]

\* The worker is inside _run_macro_impl, operating on the workbook copy.
InImpl(w) == w.pc = "impl"
\* th.is_alive()
IsAlive(w) == w.pc # "done"

MacroEvent(ev, n, err, secs, alive) ==
    [ev |-> ev, n |-> n, err |-> err, secs |-> secs, alive |-> alive]

InitMacro ==
    /\ macroPc = "call" /\ macroCall = "first" /\ attempt = 0 /\ excList = <<>>
    /\ late = FALSE /\ workers = <<>> /\ macroLog = <<>>
    /\ FlowIdle /\ FifoIdle /\ WrIdle /\ FnIdle /\ HttpIdle /\ LoopIdle

\* process_row line 344 and excel_utils lines 217-219: the call, first attempt
MacroEnter ==
    /\ macroPc = "call"
    /\ attempt' = 1 /\ macroPc' = "top"
    /\ UNCHANGED <<macroCall, excList, late, workers, macroLog, besidesMacro>>

\* lines 221-240: kill lingering Excel, a fresh `exc`, start the thread
\* (`workers` holds the threads still alive and the latest one)
MacroStartThread ==
    /\ macroPc = "top"
    /\ excList' = <<>>
    /\ workers' = Append(SelectSeq(workers, IsAlive), NewWorker(macroCall, attempt))
    /\ late' = FALSE
    /\ macroLog' = macroLog \o <<MacroEvent("kill", attempt, NoErr, 0, FALSE),
                                 MacroEvent("start", attempt, NoErr, 0, FALSE)>>
    /\ macroPc' = "watch"
    /\ UNCHANGED <<macroCall, attempt, besidesMacro>>

\* line 241: while th.is_alive()
MacroWatch ==
    /\ macroPc = "watch"
    /\ macroPc' = IF IsAlive(workers[Len(workers)]) THEN "sleeping" ELSE "decide"
    /\ UNCHANGED <<macroCall, attempt, excList, late, workers, macroLog,
                   besidesMacro>>

\* Time passes READY_TO seconds after th.start().
MacroClock ==
    /\ macroPc \in {"watch", "sleeping"} /\ ~late
    /\ late' = TRUE
    /\ UNCHANGED <<macroPc, macroCall, attempt, excList, workers, macroLog,
                   besidesMacro>>

\* lines 242-245: the sleep is over; past READY_TO Excel is killed
MacroSlept ==
    /\ macroPc = "sleeping"
    /\ IF late
       THEN /\ macroLog' = Append(macroLog,
                   MacroEvent("timeout_kill", attempt, NoErr, 0,
                              IsAlive(workers[Len(workers)])))
            /\ macroPc' = "append"
       ELSE /\ macroPc' = "watch"
            /\ UNCHANGED macroLog
    /\ UNCHANGED <<macroCall, attempt, excList, late, workers, besidesMacro>>

\* lines 246-247: the watchdog records its timeout and leaves the loop
MacroAppendTimeout ==
    /\ macroPc = "append"
    /\ excList' = Append(excList, FlowErr("Timeout running macro"))
    /\ macroPc' = "decide"
    /\ UNCHANGED <<macroCall, attempt, late, workers, macroLog, besidesMacro>>

\* lines 249-264: return, retry after the pause, or raise
MacroDecide ==
    /\ macroPc = "decide"
    /\ IF excList = <<>>
       THEN /\ macroLog' = Append(macroLog,
                              MacroEvent("return", attempt, NoErr, 0, FALSE))
            /\ macroPc' = "returned"
            /\ UNCHANGED attempt
       ELSE LET err == excList[1]
                failed == MacroEvent("fail", attempt, err, 0, FALSE)
            IN  IF ShouldRetry(err, attempt)
                THEN /\ macroLog' = macroLog \o
                          <<failed, MacroEvent("sleep", attempt, NoErr, backoff, FALSE)>>
                     /\ attempt' = attempt + 1
                     /\ macroPc' = "top"
                ELSE /\ macroLog' = macroLog \o
                          <<failed, MacroEvent("raise", attempt, err, 0, FALSE)>>
                     /\ macroPc' = "raised"
                     /\ UNCHANGED attempt
    /\ UNCHANGED <<macroCall, excList, late, workers, besidesMacro>>

\* process_row lines 383-388: after the call (the except clause when it
\* raised), the finally clause deletes the copy and kills Excel
MacroUnlink ==
    /\ macroPc \in {"returned", "raised"}
    /\ macroPc' = IF macroPc = "raised" THEN "unlinked_failed" ELSE "unlinked_ok"
    /\ UNCHANGED <<macroCall, attempt, excList, late, workers, macroLog,
                   besidesMacro>>

\* run_flow lines 432-441: process_row returned False and an attempt
\* remains: after the sleep the next process_row copies the template to the
\* same path and calls run_excel_macro again
MacroRetryRow ==
    /\ macroPc = "unlinked_failed" /\ macroCall = "first"
    /\ macroCall' = "retry"
    /\ macroPc' = "call"
    /\ attempt' = 0 /\ excList' = <<>> /\ late' = FALSE /\ macroLog' = <<>>
    /\ UNCHANGED <<workers, besidesMacro>>

\* One step of worker thread i, lines 224-235: _run_macro_impl comes to its
\* end, then the exception, if any, is appended to `exc` of its own call.
WorkerStep(i) ==
    LET w == workers[i]
        current == i = Len(workers) /\ w.call = macroCall
    IN  /\ macroPc # "idle"
        /\ CASE w.pc = "impl" ->
                  /\ \E e \in (IF late \/ ~current THEN ImplErrsLate
                                                   ELSE ImplErrsEarly) :
                         workers' = [workers EXCEPT ![i].pc = "record",
                                                    ![i].err = e]
                  /\ UNCHANGED excList
             [] w.pc = "record" ->
                  /\ workers' =
                        IF i = Len(workers)
                        THEN [workers EXCEPT ![i].pc = "done", ![i].err = NoErr]
                        ELSE SubSeq(workers, 1, i - 1) \o
                             SubSeq(workers, i + 1, Len(workers))
                  /\ excList' = IF w.err # NoErr /\ w.call = macroCall
                                THEN Append(excList, w.err) ELSE excList
             [] OTHER -> FALSE
        /\ UNCHANGED <<macroPc, macroCall, attempt, late, macroLog, besidesMacro>>

WorkerRun == \E i \in 1..Len(workers) : WorkerStep(i)

NextMacro ==
    \/ MacroEnter \/ MacroStartThread \/ MacroWatch \/ MacroClock \/ MacroSlept
    \/ MacroAppendTimeout \/ MacroDecide \/ MacroUnlink \/ MacroRetryRow
    \/ WorkerRun

SpecMacro == InitMacro /\ [][NextMacro]_vars

MacroIdx(ev) == {i \in 1..Len(macroLog) : macroLog[i].ev = ev}

\* ---- C26 ------------------------------------------------------------------
C26_RpcError(e) ==
    e.has_hresult /\ e.hresult \in {RPC_E_CALL_FAILED, RPC_E_SERVER_UNAVAILABLE}

\* C26: run_excel_macro starts at most three attempts; an attempt after the
\* first is started only after the previous attempt failed with an RPC error,
\* then a pause of 5 s, then a kill of lingering Excel processes; a failure
\* that is not an RPC error, or any failure of the third attempt, is raised
\* to the caller; and it returns exactly when an attempt ended with no
\* exception recorded (a recorded failure is never empty).
C26_RunExcelMacro ==
    /\ attempt <= 3 /\ Cardinality(MacroIdx("start")) <= 3
    /\ \A i \in MacroIdx("start") :
          macroLog[i].n > 1 =>
              /\ i > 3
              /\ macroLog[i - 1].ev = "kill"
              /\ macroLog[i - 2].ev = "sleep" /\ macroLog[i - 2].secs = 5
              /\ macroLog[i - 3].ev = "fail" /\ C26_RpcError(macroLog[i - 3].err)
              /\ macroLog[i - 3].n = macroLog[i].n - 1
    /\ \A i \in MacroIdx("fail") :
          /\ macroLog[i].err # NoErr
          /\ (~C26_RpcError(macroLog[i].err) \/ macroLog[i].n = 3) =>
                /\ i = Len(macroLog) - 1
                /\ macroLog[i + 1].ev = "raise"
                /\ macroLog[i + 1].err = macroLog[i].err
                /\ macroPc \in {"raised", "unlinked_failed"}
    /\ \A i \in MacroIdx("return") :
          /\ i = Len(macroLog) /\ macroLog[i - 1].ev = "start"
          /\ macroLog[i - 1].n = macroLog[i].n
          /\ macroPc \in {"returned", "unlinked_ok"}
    /\ macroPc = "returned" => MacroIdx("return") # {} /\ excList = <<>>
    /\ macroPc = "raised" => MacroIdx("raise") # {}

\* The third attempt failed with an RPC error as the two before it: raised.
C26_Witness ==
    /\ macroPc = "raised" /\ attempt = 3
    /\ C26_RpcError(macroLog[Len(macroLog)].err)
    /\ Cardinality(MacroIdx("sleep")) = 2

\* ---- C27 ------------------------------------------------------------------
\* C27: once the watchdog has found the worker thread alive more than
\* READY_TO seconds after its start and killed Excel, run_excel_macro starts
\* no further attempt and does not return; what it raises is the FlowError
\* "Timeout running macro".
C27_WatchdogTimeout ==
    \A i \in MacroIdx("timeout_kill") :
        macroLog[i].alive =>
            \A j \in (i + 1)..Len(macroLog) :
                /\ macroLog[j].ev \notin {"start", "return"}
                /\ macroLog[j].ev \in {"fail", "raise"} =>
                       macroLog[j].err = FlowErr("Timeout running macro")

\* ---- C28 ------------------------------------------------------------------
C28_Operating == {i \in 1..Len(workers) : InImpl(workers[i])}
C28_CopyDeleted(w) ==
    w.call # macroCall \/ macroPc \in {"unlinked_ok", "unlinked_failed"}

\* C28: when run_excel_macro has returned or raised no worker thread is
\* alive; at most one worker thread is operating on a workbook copy at any
\* time; and no worker operates on a copy that process_row has deleted.
C28_NoStrayWorker ==
    /\ macroPc \in {"returned", "raised"} => \A i \in 1..Len(workers) : ~IsAlive(workers[i])
    /\ Cardinality(C28_Operating) <= 1
    /\ \A i \in C28_Operating : ~C28_CopyDeleted(workers[i])

(***************************************************************************)
(* SpecMacroImpl: one macro attempt, _run_macro_impl called on its own.    *)
(***************************************************************************)
NoImplResult == [err |-> NoErr, ops |-> <<>>]

InitMacroImpl ==
    /\ fnPc = "ready" /\ fnIn \in ImplEnvs /\ fnOut = NoImplResult
    /\ FlowIdle /\ FifoIdle /\ WrIdle /\ HttpIdle /\ MacroIdle /\ LoopIdle

MacroImplCall ==
    /\ fnPc = "ready"
    /\ fnOut' = _run_macro_impl(fnIn)
    /\ fnPc' = "done"
    /\ UNCHANGED <<fnIn, besidesFn>>

NextMacroImpl == MacroImplCall

SpecMacroImpl == InitMacroImpl /\ [][NextMacroImpl]_vars

\* ---- C29 ------------------------------------------------------------------
C29_At(names) == {i \in 1..Len(fnOut.ops) : fnOut.ops[i] \in names}

\* The recalculation and the save come after a READY flag, and never in an
\* attempt with an ERROR flag, a wait timeout or a macro exception.
C29_SaveOnlyAfterReady ==
    \A i \in C29_At({"CalculateFull", "calc_failed", "save", "save_failed"}) :
        /\ \E j \in C29_At({"READY"}) : j < i
        /\ C29_At({"ERROR", "timeout", "macro_failed"}) = {}

\* The close, failed or not, is followed by the kill, which ends the attempt.
C29_CloseThenKill ==
    /\ Len(fnOut.ops) >= 2
    /\ fnOut.ops[Len(fnOut.ops) - 1] \in {"close", "close_failed"}
    /\ fnOut.ops[Len(fnOut.ops)] \in {"kill", "kill_failed"}

max_percent == 80
CpuReadings == {max_percent - 1, max_percent, max_percent + 1}

\* line 171: `if cpu < max_percent`
CpuBelow_Never(c) == FALSE
CpuBelow(c) == c < max_percent

\* The batches tried: no upload flag, no BID GUID, rows of two kinds.
LivePayloads ==
    {p \in Payloads :
        /\ p.upload = NoneVal /\ p.bid = NoneVal
        /\ \A i \in 1..Len(p.rows) : p.rows[i] \in {RowA, RowB}}

InitLive ==
    /\ payload \in LivePayloads
    /\ pc = "start"
    /\ rows = <<>> /\ idx = 0 /\ attempts = 0 /\ success = FALSE
    /\ max_retry = 0 /\ enable_upload = FALSE /\ bid_guid = NoneVal
    /\ scac = <<>> /\ payload_type = "" /\ pending = ""
    /\ events = <<>> /\ att = NoAttempt /\ result = [kind |-> "none"]
    /\ FifoIdle /\ WrIdle /\ FnIdle /\ HttpIdle /\ MacroIdle /\ LoopIdle

\* process_row line 332 and wait_for_cpu lines 165-168: the call reaches the
\* CPU wait, which is skipped when psutil is missing
LiveEnter ==
    /\ pc = "call"
    /\ \E psutil \in BOOLEAN :
          pc' = IF psutil THEN "cpu_wait" ELSE "open_wait"
    /\ openLate' = FALSE
    /\ UNCHANGED <<payload, rows, idx, attempts, success, max_retry, enable_upload,
                   bid_guid, scac, payload_type, pending, events, att, result,
                   cpu, fifoVars, wrVars, fnVars, httpVars, macroVars>>

\* wait_for_cpu lines 169-177: one reading; return below max_percent, sleep
\* and read again otherwise
CpuPoll(c) ==
    /\ pc = "cpu_wait"
    /\ cpu' = c
    /\ pc' = IF CpuBelow(c) THEN "open_wait" ELSE "cpu_wait"
    /\ UNCHANGED <<payload, rows, idx, attempts, success, max_retry, enable_upload,
                   bid_guid, scac, payload_type, pending, events, att, result,
                   openLate, fifoVars, wrVars, fnVars, httpVars, macroVars>>

CpuWait == \E c \in CpuReadings : CpuPoll(c)
\* A reading below max_percent.
CpuLow == \E c \in CpuReadings : CpuBelow(c) /\ CpuPoll(c)

\* excel_utils line 164, 171: OPEN_TO seconds pass after t0
OpenClock ==
    /\ pc = "open_wait" /\ ~openLate
    /\ openLate' = TRUE
    /\ UNCHANGED <<flowVars, cpu, fifoVars, wrVars, fnVars, httpVars, macroVars>>

\* excel_utils lines 166-182: one turn of the open loop: the workbook opens,
\* or the failure comes after OPEN_TO and is raised, or the loop sleeps and
\* turns again
OpenTry ==
    /\ pc = "open_wait"
    /\ \E opened \in BOOLEAN :
          pc' = IF opened THEN "run"
                ELSE IF openLate THEN "open_failed" ELSE "open_wait"
    /\ UNCHANGED <<payload, rows, idx, attempts, success, max_retry, enable_upload,
                   bid_guid, scac, payload_type, pending, events, att, result,
                   loopVars, fifoVars, wrVars, fnVars, httpVars, macroVars>>

\* The rest of the process_row call and run_flow's step after it.
LiveAttempt ==
    \/ AttemptAt("run", EnvChoices)
    \/ AttemptAt("open_failed",
                 {[EnvOk EXCEPT !.macro = "Excel failed to open workbook"]})

NextLive ==
    \/ RunFlowStart \/ LiveEnter \/ CpuWait \/ OpenClock \/ OpenTry
    \/ LiveAttempt \/ Sleep \/ ReturnSuccess \/ ReturnFailure

SpecLive ==
    InitLive /\ [][NextLive]_vars /\ WF_vars(NextLive) /\ WF_vars(CpuLow)

\* ---- C34 ------------------------------------------------------------------
\* C34: every run_flow call on a finite batch comes to its end, returning its
\* result (for an empty batch it ends with the IndexError of C33), when each
\* external call returns and a CPU reading below 80 is eventually made; the
\* attempts on a row never exceed max(1, In_intMaxRetry), the open loop does
\* not turn again after a failure past OPEN_TO, and only the CPU wait goes on
\* for as long as the readings stay high.
C34_Terminates ==
    /\ <>(pc = "returned" \/ (pc = "raised" /\ payload.rows = <<>>))
    /\ [](\A r \in 1..Len(rows) :
             Cardinality(AttemptsOf(r)) <= MaxOf(1, InMaxRetry))
    /\ [][(pc = "open_wait" /\ openLate) => pc' # "open_wait"]_vars
    /\ [][(pc = "cpu_wait" /\ pc' = "cpu_wait") => cpu' >= max_percent]_vars

\* Two rows, the first done at its second attempt, the last call made after
\* a CPU wait and a workbook that opened past OPEN_TO; the run has returned.
C34_Witness ==
    /\ pc = "returned" /\ Len(rows) = 2 /\ Cardinality(AttemptsOf(1)) = 2
    /\ Succeeded(1) /\ cpu = max_percent - 1 /\ openLate

(***************************************************************************)
(* SpecReadCell: read_cell (excel_utils.py) called on its own.             *)
(***************************************************************************)
\* What the call meets: xlwings present or not, the outcome of the open and
\* of the read (NoErr or the exception), whether close and kill work, and
\* the value in the cell.
ReadCellEnvs ==
    [xw : BOOLEAN, open : {NoErr} \cup StepErrors, read : {NoErr} \cup StepErrors,
     close : BOOLEAN, kill : BOOLEAN, value : {"ABCD", "OK"}]

NoCell == [ret |-> "", err |-> NoErr, ops |-> <<>>]

\* lines 267-283.  When app.books.open raises, `wb` was never bound: building
\* the tuple (wb.close, app.kill) in the finally clause raises
\* UnboundLocalError, outside the inner try, before close or kill is called.
read_cell(env) ==
    IF ~env.xw
    THEN [NoCell EXCEPT !.err = FlowErr("xlwings is required")]
    ELSE IF env.open # NoErr
    THEN [NoCell EXCEPT !.err = [NoErr EXCEPT !.type = "UnboundLocalError",
                                              !.msg = "wb"],
                        !.ops = <<"App", "open_failed">>]
    ELSE LET finally == <<IF env.close THEN "close" ELSE "close_failed",
                          IF env.kill THEN "kill" ELSE "kill_failed">>
         IN  IF env.read # NoErr
             THEN [NoCell EXCEPT !.err = env.read,
                                 !.ops = <<"App", "open", "read_failed">> \o finally]
             ELSE [NoCell EXCEPT !.ret = env.value,
                                 !.ops = <<"App", "open", "read">> \o finally]

InitReadCell ==
    /\ fnPc = "ready" /\ fnIn \in ReadCellEnvs /\ fnOut = NoCell
    /\ FlowIdle /\ FifoIdle /\ WrIdle /\ HttpIdle /\ MacroIdle /\ LoopIdle

ReadCellCall ==
    /\ fnPc = "ready"
    /\ fnOut' = read_cell(fnIn)
    /\ fnPc' = "done"
    /\ UNCHANGED <<fnIn, besidesFn>>

NextReadCell == ReadCellCall

SpecReadCell == InitReadCell /\ [][NextReadCell]_vars

\* ---- C35 ------------------------------------------------------------------
C35_Tried(names) == \E i \in 1..Len(fnOut.ops) : fnOut.ops[i] \in names

\* C35: read_cell always kills the Excel application it started; when the
\* open or the read fails it propagates that error; on success it returns
\* the value of the cell, having closed the workbook and killed the
\* application.
C35_ReadCell ==
    fnPc = "done" =>
        /\ C35_Tried({"App"}) => C35_Tried({"kill", "kill_failed"})
        /\ (fnIn.xw /\ fnIn.open # NoErr) => fnOut.err = fnIn.open
        /\ (fnIn.xw /\ fnIn.open = NoErr /\ fnIn.read # NoErr) =>
              fnOut.err = fnIn.read
        /\ (fnIn.xw /\ fnIn.open = NoErr /\ fnIn.read = NoErr) =>
              /\ fnOut.err = NoErr /\ fnOut.ret = fnIn.value
              /\ C35_Tried({"close", "close_failed"})

(***************************************************************************)
(* SpecCopy: copy_template (excel_utils.py) called on its own.             *)
(***************************************************************************)
\* What the call meets: whether the template, the destination folder and the
\* destination file exist, how the two shutil.copy2 calls end, and whether
\* the unlink works.
CopyOutcomes == {"ok", "PermissionError", "OSError"}
CopyEnvs ==
    [src : {"T.xlsm"}, exists : BOOLEAN, folder : BOOLEAN, file : BOOLEAN,
     copy1 : CopyOutcomes, unlink : BOOLEAN, copy2 : CopyOutcomes]

NoCopy == [err |-> NoExc, ops |-> <<>>, folder |-> FALSE, file |-> FALSE]

\* lines 113-119: the PermissionError handler: unlink (a failure is passed
\* over), then the second copy, whose exception is not caught
AfterLocked_NoRetry(env) ==
    [err |-> Exc("PermissionError", ""), ops |-> <<>>, file |-> env.file]
AfterLocked(env) ==
    LET gone == env.file /\ env.unlink
        un == IF env.unlink THEN "unlink" ELSE "unlink_failed"
    IN  IF env.copy2 = "ok"
        THEN [err |-> NoExc, ops |-> <<un, "copy2">>, file |-> TRUE]
        ELSE [err |-> Exc(env.copy2, ""), ops |-> <<un, "copy2_failed">>,
              file |-> env.file /\ ~gone]

\* lines 98-121: the exception raised (NoExc: dst_path is returned), the
\* file-system calls made, and what exists afterwards
copy_template(env) ==
    IF ~env.exists
    THEN [err |-> FlowErrorOf(<<"Template not found: ", env.src>>, FALSE),
          ops |-> <<>>, folder |-> env.folder, file |-> env.folder /\ env.file]
    ELSE IF env.copy1 = "ok"
    THEN [err |-> NoExc, ops |-> <<"mkdir", "copy2">>, folder |-> TRUE, file |-> TRUE]
    ELSE IF env.copy1 = "PermissionError"
    THEN LET again == AfterLocked(env)
         IN  [err |-> again.err, ops |-> <<"mkdir", "copy2_failed">> \o again.ops,
              folder |-> TRUE, file |-> again.file]
    ELSE [err |-> Exc(env.copy1, ""), ops |-> <<"mkdir", "copy2_failed">>,
          folder |-> TRUE, file |-> env.folder /\ env.file]

InitCopy ==
    /\ fnPc = "ready" /\ fnOut = NoCopy
    /\ fnIn \in {e \in CopyEnvs : e.file => e.folder}
    /\ FlowIdle /\ FifoIdle /\ WrIdle /\ HttpIdle /\ MacroIdle /\ LoopIdle

CopyCall ==
    /\ fnPc = "ready"
    /\ fnOut' = copy_template(fnIn)
    /\ fnPc' = "done"
    /\ UNCHANGED <<fnIn, besidesFn>>

NextCopy == CopyCall

SpecCopy == InitCopy /\ [][NextCopy]_vars

\* ---- C36 ------------------------------------------------------------------
C36_Copies ==
    {i \in 1..Len(fnOut.ops) : fnOut.ops[i] \in {"copy2", "copy2_failed"}}

\* C36: when the template does not exist copy_template raises FlowError
\* "Template not found" and creates neither the destination folder nor the
\* file; when the first copy fails with PermissionError it tries to unlink
\* the destination and copies once more, exactly once, and a failure of that
\* second copy is raised to the caller.
C36_CopyTemplate ==
    fnPc = "done" =>
        /\ ~fnIn.exists =>
              /\ fnOut.err.type = "FlowError"
              /\ fnOut.err.msg[1] = "Template not found: "
              /\ fnOut.ops = <<>>
              /\ fnOut.folder = fnIn.folder /\ fnOut.file = fnIn.file
        /\ (fnIn.exists /\ fnIn.copy1 = "PermissionError") =>
              /\ Cardinality(C36_Copies) = 2
              /\ fnOut.ops[3] \in {"unlink", "unlink_failed"}
              /\ fnIn.unlink => fnOut.ops[3] = "unlink"
              /\ fnOut.err = (IF fnIn.copy2 = "ok" THEN NoExc
                              ELSE Exc(fnIn.copy2, ""))
        /\ (fnIn.exists /\ fnIn.copy1 # "PermissionError") =>
              Cardinality(C36_Copies) = 1

\* The destination was locked at both copies: unlinked, copied again, raised.
C36_Witness ==
    /\ fnPc = "done" /\ fnIn.exists /\ fnIn.copy1 = "PermissionError"
    /\ fnIn.copy2 = "PermissionError"
    /\ fnOut.ops = <<"mkdir", "copy2_failed", "unlink", "copy2_failed">>
    /\ fnOut.err.type = "PermissionError"

(***************************************************************************)
(* SpecAdhocFetch: _fetch_adhoc_headers (process_fm_tool.py) called on its *)
(* own.  A JSON object is a function from its keys to values [kind, s]; a  *)
(* key is the pair of its stem and its number.                             *)
(***************************************************************************)
\* line 260: f"ADHOC_INFO{i}"
AdhocKey(i) == <<"ADHOC_INFO", i>>

\* The keys a PROCESS_JSON object may carry here, and their values.
JsonKeys == {AdhocKey(1), AdhocKey(10), AdhocKey(11), <<"NOTE", 0>>}
JsonValues == {VAbsent, VNone, VStr("Lane"), VInt("7")}
NoJson == [k \in JsonKeys |-> VAbsent]

\* pyodbc present or not, how the SQL calls end, what fetchone gives
\* ("object": row[0] is the text of the object `data`), whether close works.
FetchCases ==
    [pyodbc : BOOLEAN, sql : {"ok", "connect_fails", "execute_fails"},
     row : {"no_row", "null", "empty", "malformed", "array"},
     data : {NoJson}, close : BOOLEAN]
    \cup [pyodbc : {TRUE}, sql : {"ok"}, row : {"object"},
          data : [JsonKeys -> JsonValues], close : BOOLEAN]

\* data.get(key): None for a key the object does not have
JsonGet(data, k) ==
    IF k \in DOMAIN data /\ data[k] # VAbsent THEN data[k] ELSE VNone

\* line 262: isinstance(v, str)
IsStr_NotNone(v) == v.kind # "none"
IsStr(v) == v.kind = "str"

\* lines 234-272: the mapping returned, as the set of its (key, value)
\* pairs.  Every exception is caught: json.loads failing at line 254, the
\* rest (the AttributeError of data.get on a JSON array too) at line 264.
_fetch_adhoc_headers(env) ==
    IF ~env.pyodbc THEN {}
    ELSE IF env.sql # "ok" THEN {}
    ELSE IF env.row \in {"no_row", "null", "empty"} THEN {}
    ELSE IF env.row = "malformed" THEN {}
    ELSE IF env.row = "array" THEN {}
    ELSE {<<AdhocKey(i), JsonGet(env.data, AdhocKey(i)).s>> :
             i \in {j \in 1..10 : IsStr(JsonGet(env.data, AdhocKey(j)))}}

InitAdhocFetch ==
    /\ fnPc = "ready" /\ fnIn \in FetchCases /\ fnOut = {}
    /\ FlowIdle /\ FifoIdle /\ WrIdle /\ HttpIdle /\ MacroIdle /\ LoopIdle

AdhocFetchCall ==
    /\ fnPc = "ready"
    /\ fnOut' = _fetch_adhoc_headers(fnIn)
    /\ fnPc' = "returned"
    /\ UNCHANGED <<fnIn, besidesFn>>

NextAdhocFetch == AdhocFetchCall

SpecAdhocFetch == InitAdhocFetch /\ [][NextAdhocFetch]_vars

\* ---- C37 ------------------------------------------------------------------
\* C37: _fetch_adhoc_headers returns, never raises; the mapping is empty
\* when SQL is unavailable, the query fails, there is no row or an empty
\* PROCESS_JSON, or PROCESS_JSON is malformed; otherwise it holds exactly the
\* entries ADHOC_INFO1..ADHOC_INFO10 of the JSON whose values are strings.
C37_FetchAdhocHeaders ==
    /\ fnPc \in {"ready", "returned"}
    /\ fnPc = "returned" =>
          IF fnIn.pyodbc /\ fnIn.sql = "ok" /\ fnIn.row = "object"
          THEN fnOut =
                 {<<<<"ADHOC_INFO", i>>, fnIn.data[<<"ADHOC_INFO", i>>].s>> :
                     i \in {j \in 1..10 : /\ <<"ADHOC_INFO", j>> \in DOMAIN fnIn.data
                                          /\ fnIn.data[<<"ADHOC_INFO", j>>].kind = "str"}}
          ELSE fnOut = {}

\* An object with a string under ADHOC_INFO1, a number under ADHOC_INFO10
\* and a string under ADHOC_INFO11: only the first is returned.
C37_Witness ==
    /\ fnPc = "returned" /\ fnIn.row = "object"
    /\ fnIn.data[<<"ADHOC_INFO", 1>>] = VStr("Lane")
    /\ fnIn.data[<<"ADHOC_INFO", 10>>] = VInt("7")
    /\ fnIn.data[<<"ADHOC_INFO", 11>>] = VStr("Lane")
    /\ fnOut = {<<<<"ADHOC_INFO", 1>>, "Lane">>}

====
